---- MODULE Spec2Model ----
(***************************************************************************)
(* The ANAHATA playback engine (crates/ANAHATA/src/main.rs): the feeder    *)
(* loop (playback_thread), the JACK output callback (process_callback),    *)
(* the NATS control thread (control_thread) and the GUI's seek handlers,   *)
(* sharing the atomics of globals.rs, the rtrb ring buffer and the         *)
(* crossbeam command and metadata channels.                                *)
(*                                                                         *)
(* Every step is one access to shared state (an atomic load or store, a    *)
(* ring-buffer push or pop, a channel send or receive) together with the   *)
(* thread-local computation that follows it, so the interleavings of the   *)
(* model are the interleavings of the threads' shared accesses.            *)
(***************************************************************************)
EXTENDS Integers, Sequences, FiniteSets, TLC

\* ---------------------------------------------------------------- bounds
\* Device block sizes explored (jack_buffer_size): the ring of the smaller
\* one is shorter than a chunk, the ring of the larger one holds a chunk.
BlockSizes == {1, 2}
\* The feeder's chunk (1024 frames in main.rs:717-718), scaled down so that
\* every interleaving of one chunk's pushes with the callback's pops is
\* enumerated.
FEED_CHUNK == 3
\* Inputs of one run: control messages handled and GUI seeks started.
MaxInputs == 2
\* Output-callback invocations of one run.
MaxCallbacks == 2
\* Frames the feeder pushes in one run: two chunks.
MaxPushed == 2 * FEED_CHUNK
\* RingSpec: pushes and pops tried on the bare ring buffer.
MaxRingOps == 7
\* DecodeSpec: packets of the file decoded.
MaxPackets == 5
\* WaveformSpec: frames of the track analysed, and bins asked for.
MaxFrames == 3
MaxBins == 4

\* ------------------------------------------------------ program constants
SAMPLES_PER_SECOND == 48000
SKIP_SECONDS == 5
CMD_CAPACITY == 32
META_CAPACITY == 32

\* Frame counts of the decodable files of a run; a path is a track number,
\* and BadPath is a file decode_flac_to_vec panics on.
TrackLens == <<5, 480000>>
Tracks == 1..Len(TrackLens)
BadPath == Len(TrackLens) + 1
Paths == Tracks \cup {BadPath}

\* song.len() of the Vec the feeder holds; 0 is the empty Vec of main().
SongLen(s) == IF s = 0 THEN 0 ELSE TrackLens[s]

\* song[i]: frames are told apart by track and index.
Frame(s, i) == <<s, i>>
\* (0.0, 0.0)
Silence == <<0, 0>>

Min(a, b) == IF a <= b THEN a ELSE b
Max(a, b) == IF a >= b THEN a ELSE b

\* (n as f64 * MS_PER_SAMPLE) as u64 with MS_PER_SAMPLE = 1000.0 / 48000.0:
\* the f64 product truncates to floor(n * 1000 / 48000) for every n below
\* 3 * 10^6 (the rounding of 1000/48000 never reaches an integer boundary).
MsPosition(n) == (n * 1000) \div SAMPLES_PER_SECOND

\* A ring buffer of one block instead of two.
RingCapacityOneBlock(block) == block

\* let rtrb_buffer_size = jack_buffer_size * 2
RingCapacity(block) == block * 2

\* ------------------------------------------------------------ ring buffer
\* rtrb::RingBuffer<(f32, f32)>: a bounded FIFO; the oldest frame is the head.
\* producer.slots()
RbSlots(rb, cap) == cap - Len(rb)

\* producer.push(x): Err (nothing changes) when the buffer is full.
RbPush(rb, cap, x) ==
    IF Len(rb) < cap THEN [ok |-> TRUE, rb |-> Append(rb, x)]
                     ELSE [ok |-> FALSE, rb |-> rb]

\* consumer.pop(): Err when the buffer is empty.
RbPop(rb) ==
    IF rb # <<>> THEN [ok |-> TRUE, val |-> Head(rb), rb |-> Tail(rb)]
                 ELSE [ok |-> FALSE, val |-> Silence, rb |-> rb]

\* ------------------------------------------------------------------ state
VARIABLES
    IS_PLAYING,        \* globals.rs: AtomicBool
    PLAYHEAD,          \* globals.rs: AtomicU64, frames
    CURRENT_POSITION,  \* globals.rs: AtomicU64, milliseconds
    DURATION,          \* globals.rs: AtomicU64, milliseconds
    block,             \* jack_buffer_size, fixed when the client is created
    ring,              \* the rtrb buffer shared by producer and consumer
    cmd_q,             \* bounded::<PlayerCommand>(32)
    meta_q,            \* bounded::<MetaCommand>(32)
    song,              \* playback_thread: the Vec it holds (0: the empty Vec)
    fpc,               \* playback_thread: where it is
    path,              \* playback_thread: the path of the ChangeSong in hand
    current_pos,       \* playback_thread: current_pos
    new_pos,           \* playback_thread: new_pos (skips), the reloaded PLAYHEAD (feed)
    chunk_size,        \* playback_thread: chunk_size
    idx,               \* playback_thread: i of the push loop
    cbpc,              \* process_callback: "idle" or "slots" (inside the pop loop)
    blk,               \* process_callback: the slots of the block written so far
    out,               \* the block most recently handed back to JACK
    popped,            \* every frame the callback's pop returned, oldest first
    held,              \* the oldest buffered frame seen by a paused callback, until a pop
    resumed,           \* the first pop after a paused callback: frame held, frame popped
    n_callbacks,       \* callback invocations so far
    ctpc,              \* control_thread: "recv", "toggle", "send" (inside a blocked send) or "dead"
    ct_seen,           \* control_thread: the IS_PLAYING value its toggle loaded
    n_inputs,          \* control messages handled and GUI seeks started so far
    waveform,          \* PlayerApp.waveform.len()
    gpc,               \* GUI thread: "idle", or the store a seek is about to make
    g_new_pos,         \* GUI thread: new_pos of the seek in hand
    pushed,            \* every frame the feeder's push accepted, oldest first
    cs_log,            \* the shared writes of the ChangeSong in hand, in order
    skip_log,          \* the last two skips applied: command, playhead read, playhead stored
    rb_log,            \* RingSpec: the pushes and pops tried on the bare ring buffer
    cb_in_cs,          \* the callback in progress began while a ChangeSong was in hand
    sent,              \* every command the channel accepted, oldest first
    recvd,             \* every command the feeder's try_recv returned, oldest first
    ct_cmd,            \* control_thread: the command its blocked send holds
    stop_hist,         \* IS_PLAYING as loaded by the stop messages (last two) handled
                       \* since the feeder last stored IS_PLAYING
    dec,               \* decode_flac_to_vec: the packets and the partial results of
                       \* the parallel map and reduce, in packet order
    smp,               \* decode_audio_buffer: one raw channel sample, its format and
                       \* the operands of the f32 division that normalises it
    wf,                \* generate_waveform: song, num_bins, samples_per_bin and the
                       \* bins pushed so far
    sought,            \* the frame the last skip or seek stored in PLAYHEAD and which
                       \* of the two stored it, while the feeder has pushed nothing
                       \* since; NoSeek otherwise
    sp,                \* crates/player: the streaming player's statics, ring buffer,
                       \* channels and the locals of prefill_buffer and decode_flac;
                       \* pushed: every frame a push accepted, changes: ChangeSongs
                       \* received, retried: a push of decode_flac has failed
    net,               \* the NATS server between the crates: the messages queued on
                       \* ANAHATA's and AKASHA's subscriptions, every message published,
                       \* the arms ANAHATA's control thread took, the controller events
    sel                \* crates/AKASHA: the UiMessage and SelectMessage channels and
                       \* FileSelectorApp's files, selected_index and current_dir

shared == <<IS_PLAYING, PLAYHEAD, CURRENT_POSITION, DURATION>>
feeder == <<song, fpc, path, current_pos, new_pos, chunk_size, idx, pushed, cs_log, skip_log,
            recvd>>
callback == <<cbpc, blk, out, popped, held, resumed, n_callbacks, cb_in_cs>>
control == <<ctpc, ct_seen, ct_cmd, sent>>
gui == <<waveform, gpc, g_new_pos>>
\* The threads' state, and the state of the functions checked on their own.
program == <<shared, block, ring, cmd_q, meta_q, feeder, callback, control, gui, n_inputs,
             rb_log, stop_hist, sought>>
\* The other crates of the workspace, each checked on its own.
siblings == <<sp, net, sel>>
analysis == <<dec, smp, wf, siblings>>
vars == <<program, analysis>>

\* crates/player before main() runs: its statics (IS_PLAYING starts true).
PlayerOff ==
    [pc |-> "off", path |-> 0, sample_index |-> 0, left_sample |-> -1, read |-> 0,
     samples_written |-> 0, ring |-> <<>>, cmd_q |-> <<>>, meta |-> 0, IS_PLAYING |-> TRUE,
     CURRENT_POSITION |-> 0, slots |-> 0, inputs |-> 0, pushed |-> <<>>, changes |-> 0,
     retried |-> FALSE]

\* No message has been published and no subscription holds one.
NetOff ==
    [anahata_sub |-> <<>>, akasha_sub |-> <<>>, published |-> <<>>, arms |-> <<>>,
     events |-> 0]

\* crates/AKASHA before main() runs.
SelectorOff ==
    [pc |-> "off", ui_q |-> <<>>, select_q |-> <<>>, files |-> <<>>, selected_index |-> 0,
     current_dir |-> ""]

\* No sibling crate is running.
SiblingsIdle == sp = PlayerOff /\ net = NetOff /\ sel = SelectorOff

\* No decode is in hand.
AnalysisIdle ==
    /\ SiblingsIdle
    /\ dec = [n |-> 0, parts |-> <<>>]
    /\ smp = [pc |-> "idle", fmt |-> "none", raw |-> [neg |-> FALSE, hi |-> 0, lo |-> 0],
              out |-> [neg |-> FALSE, num |-> [m |-> 0, e |-> 0], den |-> [m |-> 1, e |-> 0]]]
    /\ wf = [pc |-> "idle", song |-> <<>>, num_bins |-> 0, samples_per_bin |-> 0,
             bins |-> <<>>]

\* No skip or seek is waiting for the feeder's next push.
NoSeek == [by |-> "none", frame |-> 0]

\* The commands of the channel; NoCmd: the control thread holds none.
SkipForwardCmd == [cmd |-> "SkipForward", path |-> 0]
SkipBackwardCmd == [cmd |-> "SkipBackward", path |-> 0]
ChangeSongCmd(p) == [cmd |-> "ChangeSong", path |-> p]
NoCmd == [cmd |-> "none", path |-> 0]

\* The statics of globals.rs and the locals of main() before the threads start.
InitProgram ==
    /\ IS_PLAYING = FALSE
    /\ PLAYHEAD = 0
    /\ CURRENT_POSITION = 0
    /\ DURATION = 0
    /\ ring = <<>>
    /\ cmd_q = <<>>
    /\ meta_q = <<>>
    /\ song = 0
    /\ fpc = "poll"
    /\ path = 0
    /\ current_pos = 0
    /\ new_pos = 0
    /\ chunk_size = 0
    /\ idx = 0
    /\ cbpc = "idle"
    /\ blk = <<>>
    /\ out = [slots |-> <<>>, ret |-> "none"]
    /\ popped = <<>>
    /\ held = Silence
    /\ resumed = [held |-> Silence, got |-> Silence]
    /\ ctpc = "recv"
    /\ ct_seen = FALSE
    /\ n_inputs = 0
    /\ n_callbacks = 0
    /\ waveform = 0
    /\ gpc = "idle"
    /\ g_new_pos = 0
    /\ pushed = <<>>
    /\ cs_log = <<>>
    /\ skip_log = <<>>
    /\ rb_log = <<>>
    /\ cb_in_cs = FALSE
    /\ sent = <<>>
    /\ recvd = <<>>
    /\ ct_cmd = NoCmd
    /\ stop_hist = <<>>
    /\ sought = NoSeek

Init ==
    /\ block \in BlockSizes
    /\ InitProgram
    /\ AnalysisIdle

\* ----------------------------------------------------------------- feeder
\* What the feeder's steps leave alone.
bystanders == <<block, callback, control, gui, n_inputs, rb_log, analysis>>
others == <<bystanders, sought>>
not_feeder == <<others, recvd, stop_hist>>

\* The feeder is inside ChangeSong, between its IS_PLAYING.store(false) and its
\* IS_PLAYING.store(true).
InChangeSong ==
    fpc \in {"cs_playhead", "cs_position", "cs_decode", "cs_waveform", "cs_duration", "cs_play"}
feeder_locals == <<path, current_pos, new_pos, chunk_size, idx>>

\* let skip_amount = SKIP_SECONDS * SAMPLES_PER_SECOND
SkipAmount == SKIP_SECONDS * SAMPLES_PER_SECOND

\* A SkipForward that does not clamp at the end of the track.
SkipForwardPosUnclamped(p, len) == p + SkipAmount

\* new_pos of SkipForward
SkipForwardPos(p, len) == IF p + SkipAmount >= len THEN len ELSE p + SkipAmount

\* A SkipBackward over another window than SkipForward's.
SkipBackwardPosOtherWindow(p) == IF p <= 2 * SkipAmount THEN 0 ELSE p - 2 * SkipAmount

\* new_pos of SkipBackward
SkipBackwardPos(p) == IF p <= SkipAmount THEN 0 ELSE p - SkipAmount

\* A duration in whole seconds.
DurationInSeconds(len) == len \div SAMPLES_PER_SECOND

\* let duration_ms = (song.len() as f64 * MS_PER_SAMPLE) as u64
DurationMs(len) == MsPosition(len)

\* generate_waveform(&song, 20000).len()
WaveformBins(len) == IF len = 0 THEN 0 ELSE 20000

\* The last two skips, newest last.
Logged(log, rec) == IF Len(log) < 2 THEN Append(log, rec) ELSE <<log[2], rec>>

\* A poll that takes the newest queued command instead of the oldest.
FeederPollNewest ==
    /\ fpc = "poll"
    /\ IF cmd_q = <<>>
       THEN /\ fpc' = "gate"
            /\ UNCHANGED <<cmd_q, path, recvd>>
       ELSE /\ cmd_q' = SubSeq(cmd_q, 1, Len(cmd_q) - 1)
            /\ recvd' = Append(recvd, cmd_q[Len(cmd_q)])
            /\ path' = cmd_q[Len(cmd_q)].path
            /\ fpc' = CASE cmd_q[Len(cmd_q)].cmd = "ChangeSong" -> "cs_stop"
                        [] cmd_q[Len(cmd_q)].cmd = "SkipForward" -> "sf_load"
                        [] cmd_q[Len(cmd_q)].cmd = "SkipBackward" -> "sb_load"
    /\ UNCHANGED <<shared, ring, meta_q, song, current_pos, new_pos, chunk_size, idx,
                   pushed, cs_log, skip_log, others, stop_hist>>

\* A poll that leaves the loop when try_recv reports the sender gone.
FeederPollEndsWhenDisconnected ==
    /\ fpc = "poll"
    /\ IF cmd_q = <<>>
       THEN /\ fpc' = IF ctpc \in {"gone", "dead"} THEN "dead" ELSE "gate"
            /\ UNCHANGED <<cmd_q, path, recvd>>
       ELSE /\ cmd_q' = Tail(cmd_q)
            /\ recvd' = Append(recvd, Head(cmd_q))
            /\ path' = Head(cmd_q).path
            /\ fpc' = CASE Head(cmd_q).cmd = "ChangeSong" -> "cs_stop"
                        [] Head(cmd_q).cmd = "SkipForward" -> "sf_load"
                        [] Head(cmd_q).cmd = "SkipBackward" -> "sb_load"
    /\ UNCHANGED <<shared, ring, meta_q, song, current_pos, new_pos, chunk_size, idx,
                   pushed, cs_log, skip_log, others, stop_hist>>

\* match cmd_rx.try_recv(): an empty or disconnected channel falls to `_ => {}`.
FeederPoll ==
    /\ fpc = "poll"
    /\ IF cmd_q = <<>>
       THEN /\ fpc' = "gate"
            /\ UNCHANGED <<cmd_q, path, recvd>>
       ELSE /\ cmd_q' = Tail(cmd_q)
            /\ recvd' = Append(recvd, Head(cmd_q))
            /\ path' = Head(cmd_q).path
            /\ fpc' = CASE Head(cmd_q).cmd = "ChangeSong" -> "cs_stop"
                        [] Head(cmd_q).cmd = "SkipForward" -> "sf_load"
                        [] Head(cmd_q).cmd = "SkipBackward" -> "sb_load"
    /\ UNCHANGED <<shared, ring, meta_q, song, current_pos, new_pos, chunk_size, idx,
                   pushed, cs_log, skip_log, others, stop_hist>>

\* ChangeSong: IS_PLAYING.store(false)
ChangeSongStop ==
    /\ fpc = "cs_stop"
    /\ IS_PLAYING' = FALSE
    /\ cs_log' = <<"IS_PLAYING=false">>
    /\ stop_hist' = <<>>
    /\ fpc' = "cs_playhead"
    /\ UNCHANGED <<PLAYHEAD, CURRENT_POSITION, DURATION, ring, cmd_q, meta_q, song,
                   feeder_locals, pushed, skip_log, others, recvd>>

\* A ChangeSong that leaves the playhead where the previous track was.
ChangeSongPlayheadKept ==
    /\ fpc = "cs_playhead"
    /\ cs_log' = Append(cs_log, "PLAYHEAD=0")
    /\ fpc' = "cs_position"
    /\ UNCHANGED <<IS_PLAYING, PLAYHEAD, CURRENT_POSITION, DURATION, ring, cmd_q, meta_q, song,
                   feeder_locals, pushed, skip_log, not_feeder>>

\* ChangeSong: PLAYHEAD.store(0)
ChangeSongPlayhead ==
    /\ fpc = "cs_playhead"
    /\ PLAYHEAD' = 0
    /\ cs_log' = Append(cs_log, "PLAYHEAD=0")
    /\ sought' = NoSeek
    /\ fpc' = "cs_position"
    /\ UNCHANGED <<IS_PLAYING, CURRENT_POSITION, DURATION, ring, cmd_q, meta_q, song,
                   feeder_locals, pushed, skip_log, bystanders, recvd, stop_hist>>

\* ChangeSong: CURRENT_POSITION.store(0)
ChangeSongPosition ==
    /\ fpc = "cs_position"
    /\ CURRENT_POSITION' = 0
    /\ cs_log' = Append(cs_log, "CURRENT_POSITION=0")
    /\ fpc' = "cs_decode"
    /\ UNCHANGED <<IS_PLAYING, PLAYHEAD, DURATION, ring, cmd_q, meta_q, song,
                   feeder_locals, pushed, skip_log, not_feeder>>

\* A ChangeSong that resumes playback as soon as the decode returns, before
\* the waveform and the duration are published.
ChangeSongDecodeThenPlay ==
    /\ fpc = "cs_decode"
    /\ IF path = BadPath
       THEN /\ fpc' = "dead"
            /\ UNCHANGED <<song, meta_q, cs_log, IS_PLAYING>>
       ELSE /\ song' = path
            /\ meta_q' = meta_q
            /\ IS_PLAYING' = TRUE
            /\ cs_log' = cs_log \o <<"track", "IS_PLAYING=true">>
            /\ fpc' = "cs_waveform"
    /\ UNCHANGED <<PLAYHEAD, CURRENT_POSITION, DURATION, ring, cmd_q, feeder_locals,
                   pushed, skip_log, not_feeder>>

\* ChangeSong: song = decode_flac_to_vec(&path, meta_tx). Every failure inside
\* is an expect(): the thread panics and never returns to its loop. A decoded
\* file sends its tags, when it has any, before the Vec is returned.
ChangeSongDecode ==
    /\ fpc = "cs_decode"
    /\ IF path = BadPath
       THEN /\ fpc' = "dead"
            /\ UNCHANGED <<song, meta_q, cs_log>>
       ELSE /\ song' = path
            /\ \E tags \in BOOLEAN :
                 IF tags
                 THEN /\ Len(meta_q) < META_CAPACITY
                      /\ meta_q' = Append(meta_q, [kind |-> "Metadata", bins |-> 0])
                 ELSE meta_q' = meta_q
            /\ cs_log' = Append(cs_log, "track")
            /\ fpc' = "cs_waveform"
    /\ UNCHANGED <<shared, ring, cmd_q, feeder_locals, pushed, skip_log, not_feeder>>

\* ChangeSong: meta_tx.send(MetaCommand::Waveform(generate_waveform(&song, 20000)))
ChangeSongWaveform ==
    /\ fpc = "cs_waveform"
    /\ Len(meta_q) < META_CAPACITY
    /\ meta_q' = Append(meta_q, [kind |-> "Waveform", bins |-> WaveformBins(SongLen(song))])
    /\ cs_log' = Append(cs_log, "waveform")
    /\ fpc' = "cs_duration"
    /\ UNCHANGED <<shared, ring, cmd_q, song, feeder_locals, pushed, skip_log, not_feeder>>

\* ChangeSong: DURATION.store(duration_ms)
ChangeSongDuration ==
    /\ fpc = "cs_duration"
    /\ DURATION' = DurationMs(SongLen(song))
    /\ cs_log' = Append(cs_log, "DURATION")
    /\ fpc' = "cs_play"
    /\ UNCHANGED <<IS_PLAYING, PLAYHEAD, CURRENT_POSITION, ring, cmd_q, meta_q, song,
                   feeder_locals, pushed, skip_log, not_feeder>>

\* ChangeSong: IS_PLAYING.store(true)
ChangeSongPlay ==
    /\ fpc = "cs_play"
    /\ IS_PLAYING' = TRUE
    /\ cs_log' = Append(cs_log, "IS_PLAYING=true")
    /\ stop_hist' = <<>>
    /\ fpc' = "gate"
    /\ path' = 0
    /\ UNCHANGED <<PLAYHEAD, CURRENT_POSITION, DURATION, ring, cmd_q, meta_q, song,
                   current_pos, new_pos, chunk_size, idx, pushed, skip_log, others, recvd>>

\* SkipForward: let current_pos = PLAYHEAD.load(); new_pos = ...
SkipForwardLoad ==
    /\ fpc = "sf_load"
    /\ current_pos' = PLAYHEAD
    /\ new_pos' = SkipForwardPos(PLAYHEAD, SongLen(song))
    /\ fpc' = "sf_store"
    /\ UNCHANGED <<shared, ring, cmd_q, meta_q, song, path, chunk_size, idx,
                   pushed, cs_log, skip_log, not_feeder>>

\* SkipForward: PLAYHEAD.store(new_pos)
SkipForwardStore ==
    /\ fpc = "sf_store"
    /\ PLAYHEAD' = new_pos
    /\ skip_log' = Logged(skip_log, [cmd |-> "SkipForward", read |-> current_pos,
                                     stored |-> new_pos, len |-> SongLen(song)])
    /\ sought' = [by |-> "skip", frame |-> new_pos]
    /\ fpc' = "sf_position"
    /\ UNCHANGED <<IS_PLAYING, CURRENT_POSITION, DURATION, ring, cmd_q, meta_q, song,
                   feeder_locals, pushed, cs_log, bystanders, recvd, stop_hist>>

\* SkipForward: CURRENT_POSITION.store((new_pos as f64 * MS_PER_SAMPLE) as u64)
SkipForwardPosition ==
    /\ fpc = "sf_position"
    /\ CURRENT_POSITION' = MsPosition(new_pos)
    /\ fpc' = "gate"
    /\ current_pos' = 0
    /\ new_pos' = 0
    /\ UNCHANGED <<IS_PLAYING, PLAYHEAD, DURATION, ring, cmd_q, meta_q, song, path,
                   chunk_size, idx, pushed, cs_log, skip_log, not_feeder>>

\* SkipBackward: let current_pos = PLAYHEAD.load(); new_pos = ...
SkipBackwardLoad ==
    /\ fpc = "sb_load"
    /\ current_pos' = PLAYHEAD
    /\ new_pos' = SkipBackwardPos(PLAYHEAD)
    /\ fpc' = "sb_store"
    /\ UNCHANGED <<shared, ring, cmd_q, meta_q, song, path, chunk_size, idx,
                   pushed, cs_log, skip_log, not_feeder>>

\* SkipBackward: PLAYHEAD.store(new_pos)
SkipBackwardStore ==
    /\ fpc = "sb_store"
    /\ PLAYHEAD' = new_pos
    /\ skip_log' = Logged(skip_log, [cmd |-> "SkipBackward", read |-> current_pos,
                                     stored |-> new_pos, len |-> SongLen(song)])
    /\ sought' = [by |-> "skip", frame |-> new_pos]
    /\ fpc' = "sb_position"
    /\ UNCHANGED <<IS_PLAYING, CURRENT_POSITION, DURATION, ring, cmd_q, meta_q, song,
                   feeder_locals, pushed, cs_log, bystanders, recvd, stop_hist>>

\* SkipBackward: CURRENT_POSITION.store((new_pos as f64 * MS_PER_SAMPLE) as u64)
SkipBackwardPosition ==
    /\ fpc = "sb_position"
    /\ CURRENT_POSITION' = MsPosition(new_pos)
    /\ fpc' = "gate"
    /\ current_pos' = 0
    /\ new_pos' = 0
    /\ UNCHANGED <<IS_PLAYING, PLAYHEAD, DURATION, ring, cmd_q, meta_q, song, path,
                   chunk_size, idx, pushed, cs_log, skip_log, not_feeder>>

\* A paused feeder that waits for playback to resume before it polls again.
FeederGateWaitsForPlay ==
    /\ fpc = "gate"
    /\ fpc' = IF IS_PLAYING THEN "load" ELSE "gate"
    /\ UNCHANGED <<shared, ring, cmd_q, meta_q, song, feeder_locals, pushed, cs_log,
                   skip_log, not_feeder>>

\* if IS_PLAYING.load() { ... }; otherwise sleep and start the next iteration.
FeederGate ==
    /\ fpc = "gate"
    /\ fpc' = IF IS_PLAYING THEN "load" ELSE "poll"
    /\ UNCHANGED <<shared, ring, cmd_q, meta_q, song, feeder_locals, pushed, cs_log,
                   skip_log, not_feeder>>

\* A feed step with no end-of-track check.
FeederLoadUnchecked ==
    /\ fpc = "load"
    /\ current_pos' = PLAYHEAD
    /\ fpc' = "slots"
    /\ UNCHANGED <<shared, ring, cmd_q, meta_q, song, path, new_pos, chunk_size, idx,
                   pushed, cs_log, skip_log, not_feeder>>

\* An end-of-track check that lets the playhead rest on song.len().
FeederLoadPastEnd ==
    /\ fpc = "load"
    /\ current_pos' = PLAYHEAD
    /\ fpc' = IF PLAYHEAD > SongLen(song) THEN "wrap_playhead" ELSE "slots"
    /\ UNCHANGED <<shared, ring, cmd_q, meta_q, song, path, new_pos, chunk_size, idx,
                   pushed, cs_log, skip_log, not_feeder>>

\* let current_pos = PLAYHEAD.load(); if current_pos >= song.len() { wrap }
FeederLoad ==
    /\ fpc = "load"
    /\ current_pos' = PLAYHEAD
    /\ fpc' = IF PLAYHEAD >= SongLen(song) THEN "wrap_playhead" ELSE "slots"
    /\ UNCHANGED <<shared, ring, cmd_q, meta_q, song, path, new_pos, chunk_size, idx,
                   pushed, cs_log, skip_log, not_feeder>>

\* An end of track that stops playback and leaves the playhead at the end.
FeederWrapPlayheadStops ==
    /\ fpc = "wrap_playhead"
    /\ IS_PLAYING' = FALSE
    /\ fpc' = "poll"
    /\ UNCHANGED <<PLAYHEAD, CURRENT_POSITION, DURATION, ring, cmd_q, meta_q, song,
                   feeder_locals, pushed, cs_log, skip_log, not_feeder>>

\* end of track: PLAYHEAD.store(0)
FeederWrapPlayhead ==
    /\ fpc = "wrap_playhead"
    /\ PLAYHEAD' = 0
    /\ fpc' = "wrap_position"
    /\ UNCHANGED <<IS_PLAYING, CURRENT_POSITION, DURATION, ring, cmd_q, meta_q, song,
                   feeder_locals, pushed, cs_log, skip_log, not_feeder>>

\* end of track: CURRENT_POSITION.store(0); continue
FeederWrapPosition ==
    /\ fpc = "wrap_position"
    /\ CURRENT_POSITION' = 0
    /\ fpc' = "poll"
    /\ current_pos' = 0
    /\ UNCHANGED <<IS_PLAYING, PLAYHEAD, DURATION, ring, cmd_q, meta_q, song, path,
                   new_pos, chunk_size, idx, pushed, cs_log, skip_log, not_feeder>>

\* let free_space = producer.slots(); if free_space >= 1024 { chunk_size = ... }
\* A run feeds at most MaxPushed frames.
FeederSlots ==
    /\ fpc = "slots"
    /\ IF RbSlots(ring, RingCapacity(block)) >= FEED_CHUNK
       THEN /\ Len(pushed) + FEED_CHUNK <= MaxPushed
            /\ chunk_size' = Min(FEED_CHUNK, SongLen(song) - current_pos)
            /\ idx' = 0
            /\ fpc' = "push"
            /\ UNCHANGED current_pos
       ELSE /\ fpc' = "poll"
            /\ current_pos' = 0
            /\ UNCHANGED <<chunk_size, idx>>
    /\ UNCHANGED <<shared, ring, cmd_q, meta_q, song, path, new_pos, pushed, cs_log,
                   skip_log, not_feeder>>

\* for i in 0..chunk_size { if producer.push(song[current_pos + i]) is Err { break } }
FeederPush ==
    /\ fpc = "push"
    /\ LET r == RbPush(ring, RingCapacity(block), Frame(song, current_pos + idx))
       IN  /\ ring' = r.rb
           /\ IF r.ok
              THEN /\ pushed' = Append(pushed, Frame(song, current_pos + idx))
                   /\ idx' = idx + 1
                   /\ sought' = NoSeek
                   /\ fpc' = IF idx + 1 = chunk_size THEN "fetch_add" ELSE "push"
              ELSE /\ fpc' = "fetch_add"
                   /\ UNCHANGED <<pushed, idx, sought>>
    /\ UNCHANGED <<shared, cmd_q, meta_q, song, path, current_pos, new_pos, chunk_size,
                   cs_log, skip_log, bystanders, recvd, stop_hist>>

\* A fetch_add of the full chunk, whatever the end of the track left to push.
FeederFetchAddFullChunk ==
    /\ fpc = "fetch_add"
    /\ PLAYHEAD' = PLAYHEAD + FEED_CHUNK
    /\ fpc' = "reload"
    /\ UNCHANGED <<IS_PLAYING, CURRENT_POSITION, DURATION, ring, cmd_q, meta_q, song,
                   feeder_locals, pushed, cs_log, skip_log, not_feeder>>

\* A store of the chunk's size in place of the fetch_add.
FeederFetchAddStoresChunk ==
    /\ fpc = "fetch_add"
    /\ PLAYHEAD' = chunk_size
    /\ fpc' = "reload"
    /\ UNCHANGED <<IS_PLAYING, CURRENT_POSITION, DURATION, ring, cmd_q, meta_q, song,
                   feeder_locals, pushed, cs_log, skip_log, not_feeder>>

\* PLAYHEAD.fetch_add(chunk_size)
FeederFetchAdd ==
    /\ fpc = "fetch_add"
    /\ PLAYHEAD' = PLAYHEAD + chunk_size
    /\ fpc' = "reload"
    /\ UNCHANGED <<IS_PLAYING, CURRENT_POSITION, DURATION, ring, cmd_q, meta_q, song,
                   feeder_locals, pushed, cs_log, skip_log, not_feeder>>

\* let ms_position = (PLAYHEAD.load() as f64 * MS_PER_SAMPLE) as u64
FeederReload ==
    /\ fpc = "reload"
    /\ new_pos' = PLAYHEAD
    /\ fpc' = "position"
    /\ UNCHANGED <<shared, ring, cmd_q, meta_q, song, path, current_pos, chunk_size, idx,
                   pushed, cs_log, skip_log, not_feeder>>

\* CURRENT_POSITION.store(ms_position); sleep
FeederPosition ==
    /\ fpc = "position"
    /\ CURRENT_POSITION' = MsPosition(new_pos)
    /\ fpc' = "poll"
    /\ current_pos' = 0
    /\ new_pos' = 0
    /\ chunk_size' = 0
    /\ idx' = 0
    /\ UNCHANGED <<IS_PLAYING, PLAYHEAD, DURATION, ring, cmd_q, meta_q, song, path,
                   pushed, cs_log, skip_log, not_feeder>>

\* --------------------------------------------------------- output callback
not_callback == <<shared, block, cmd_q, meta_q, feeder, control, gui, n_inputs, rb_log,
                  stop_hist, analysis, sought>>

\* A slot written with the channels swapped.
SlotOfSwapped(r) == IF r.ok THEN [v |-> <<r.val[2], r.val[1]>>, src |-> "pop"]
                            ELSE [v |-> Silence, src |-> "underrun"]

\* A slot left as it was when the pop fails: it keeps an earlier block's sample.
SlotOfStale(r) == IF r.ok THEN [v |-> r.val, src |-> "pop"]
                          ELSE [v |-> Frame(1, 0), src |-> "underrun"]

\* One output slot: the popped frame, or (0.0, 0.0) when the pop fails.
SlotOf(r) == IF r.ok THEN [v |-> r.val, src |-> "pop"]
                     ELSE [v |-> Silence, src |-> "underrun"]

\* One output slot of a callback that saw IS_PLAYING false.
PausedSlot == [v |-> Silence, src |-> "paused"]

\* The block handed back to JACK with Control::Continue.
Returned(slots) == [slots |-> slots, ret |-> "Continue"]

\* A paused callback that drains the ring buffer while it writes silence.
CallbackPausedDraining ==
    /\ cbpc = "idle"
    /\ n_callbacks < MaxCallbacks
    /\ n_callbacks' = n_callbacks + 1
    /\ ~IS_PLAYING
    /\ out' = Returned([k \in 1..block |-> PausedSlot])
    /\ ring' = IF ring # <<>> THEN Tail(ring) ELSE ring
    /\ held' = IF ring # <<>> THEN Head(ring) ELSE held
    /\ UNCHANGED <<cbpc, blk, popped, resumed, cb_in_cs, not_callback>>

\* if !IS_PLAYING.load() { fill both buffers with 0.0; return Continue }
CallbackPaused ==
    /\ cbpc = "idle"
    /\ n_callbacks < MaxCallbacks
    /\ n_callbacks' = n_callbacks + 1
    /\ ~IS_PLAYING
    /\ out' = Returned([k \in 1..block |-> PausedSlot])
    /\ held' = IF ring # <<>> THEN Head(ring) ELSE held
    /\ UNCHANGED <<cbpc, blk, popped, resumed, ring, cb_in_cs, not_callback>>

\* IS_PLAYING.load() was true: enter the loop over the output slots.
CallbackBegin ==
    /\ cbpc = "idle"
    /\ n_callbacks < MaxCallbacks
    /\ n_callbacks' = n_callbacks + 1
    /\ IS_PLAYING
    /\ cbpc' = "slots"
    /\ blk' = <<>>
    /\ cb_in_cs' = InChangeSong
    /\ UNCHANGED <<out, popped, held, resumed, ring, not_callback>>

\* A loop iteration that waits for a frame instead of writing silence.
CallbackSlotWaiting ==
    /\ cbpc = "slots"
    /\ ring # <<>>
    /\ LET r == RbPop(ring)
           slots == Append(blk, SlotOf(r))
       IN  /\ ring' = r.rb
           /\ popped' = Append(popped, SlotOf(r).v)
           /\ resumed' = IF held # Silence
                         THEN [held |-> held, got |-> SlotOf(r).v] ELSE resumed
           /\ held' = Silence
           /\ IF Len(slots) = block
              THEN /\ out' = Returned(slots)
                   /\ blk' = <<>>
                   /\ cbpc' = "idle"
                   /\ cb_in_cs' = FALSE
              ELSE /\ blk' = slots
                   /\ UNCHANGED <<out, cbpc, cb_in_cs>>
    /\ UNCHANGED <<n_callbacks, not_callback>>

\* One iteration of the loop: consumer.pop() into (*left, *right), or silence;
\* after the last slot, return Continue.
CallbackSlot ==
    /\ cbpc = "slots"
    /\ LET r == RbPop(ring)
           slots == Append(blk, SlotOf(r))
       IN  /\ ring' = r.rb
           /\ popped' = IF r.ok THEN Append(popped, SlotOf(r).v) ELSE popped
           /\ resumed' = IF r.ok /\ held # Silence
                         THEN [held |-> held, got |-> SlotOf(r).v] ELSE resumed
           /\ held' = IF r.ok THEN Silence ELSE held
           /\ IF Len(slots) = block
              THEN /\ out' = Returned(slots)
                   /\ blk' = <<>>
                   /\ cbpc' = "idle"
                   /\ cb_in_cs' = FALSE
              ELSE /\ blk' = slots
                   /\ UNCHANGED <<out, cbpc, cb_in_cs>>
    /\ UNCHANGED <<n_callbacks, not_callback>>

\* ---------------------------------------------------------- control thread
not_control == <<PLAYHEAD, CURRENT_POSITION, DURATION, block, ring, meta_q, feeder,
                 callback, gui, rb_log, analysis, sought>>

\* The last two loads, newest last.
StopLogged(log, v) == IF Len(log) < 2 THEN Append(log, v) ELSE <<log[2], v>>

\* "xone.player.stop": if IS_PLAYING.load() == true { ... } else { ... }
ControlStop ==
    /\ ctpc = "recv"
    /\ n_inputs < MaxInputs
    /\ n_inputs' = n_inputs + 1
    /\ ct_seen' = IS_PLAYING
    /\ stop_hist' = StopLogged(stop_hist, IS_PLAYING)
    /\ ctpc' = "toggle"
    /\ UNCHANGED <<IS_PLAYING, cmd_q, ct_cmd, sent, not_control>>

\* A stop message that always pauses.
ControlToggleAlwaysStops ==
    /\ ctpc = "toggle"
    /\ IS_PLAYING' = FALSE
    /\ ctpc' = "recv"
    /\ ct_seen' = FALSE
    /\ UNCHANGED <<n_inputs, cmd_q, ct_cmd, sent, stop_hist, not_control>>

\* "xone.player.stop": IS_PLAYING.store(false) or IS_PLAYING.store(true)
ControlToggle ==
    /\ ctpc = "toggle"
    /\ IS_PLAYING' = ~ct_seen
    /\ ctpc' = "recv"
    /\ ct_seen' = FALSE
    /\ UNCHANGED <<n_inputs, cmd_q, ct_cmd, sent, stop_hist, not_control>>

\* cmd_tx.send(c).expect("Failed to send command"): panics once the receiver
\* has been dropped; otherwise the command is queued, or, when the channel is
\* full, the thread stays inside send holding the command.
ControlSend(c) ==
    /\ ctpc = "recv"
    /\ n_inputs < MaxInputs
    /\ n_inputs' = n_inputs + 1
    /\ IF fpc = "dead"
       THEN /\ ctpc' = "dead"
            /\ UNCHANGED <<cmd_q, ct_cmd, sent>>
       ELSE IF Len(cmd_q) < CMD_CAPACITY
            THEN /\ cmd_q' = Append(cmd_q, c)
                 /\ sent' = Append(sent, c)
                 /\ UNCHANGED <<ctpc, ct_cmd>>
            ELSE /\ ctpc' = "send"
                 /\ ct_cmd' = c
                 /\ UNCHANGED <<cmd_q, sent>>
    /\ UNCHANGED <<IS_PLAYING, ct_seen, stop_hist, not_control>>

\* The send that found the channel full returns: with the command queued once
\* the feeder has made room, or with Err (and the panic of expect) once the
\* receiver has been dropped.
ControlSendBlocked ==
    /\ ctpc = "send"
    /\ IF fpc = "dead"
       THEN /\ ctpc' = "dead"
            /\ UNCHANGED <<cmd_q, sent>>
       ELSE /\ Len(cmd_q) < CMD_CAPACITY
            /\ cmd_q' = Append(cmd_q, ct_cmd)
            /\ sent' = Append(sent, ct_cmd)
            /\ ctpc' = "recv"
    /\ ct_cmd' = NoCmd
    /\ UNCHANGED <<IS_PLAYING, ct_seen, n_inputs, stop_hist, not_control>>

\* The thread ends between two messages (nats::connect or subscribe fails at
\* its start, or sub.messages() ends with the connection): cmd_tx is dropped.
\* What the channel still holds stays receivable.
ControlExit ==
    /\ ctpc = "recv"
    /\ ctpc' = "gone"
    /\ UNCHANGED <<IS_PLAYING, ct_seen, ct_cmd, sent, cmd_q, n_inputs, stop_hist, not_control>>

\* "xone.player.1.select"
ControlSelect == \E p \in Paths : ControlSend(ChangeSongCmd(p))

\* "xone.player.1.skipforward"
ControlSkipForward == ControlSend(SkipForwardCmd)

\* "xone.player.1.skipbackward"
ControlSkipBackward == ControlSend(SkipBackwardCmd)

\* -------------------------------------------------------------------- GUI
gui_bystanders == <<IS_PLAYING, DURATION, block, ring, cmd_q, feeder, callback, control,
                    rb_log, stop_hist, analysis>>
not_gui == <<gui_bystanders, sought>>


\* The new_pos values for which (new_pos as f64 / 1000.0) * 48000.0 falls just
\* below new_pos * 48 (new_pos / 1000.0 rounds down and the product is
\* truncated), among new_pos <= 300.
F64Short == {9, 18, 36, 71, 72} \cup (141..145) \cup (282..291)

\* let new_samples = ((new_pos as f64 / 1000.0) * 48000.0) as u64, for
\* new_pos <= 300 and the multiples of 1000.
SamplesOfMs(ms) == IF ms \in F64Short THEN ms * 48 - 1 ELSE ms * 48

\* The positions a seek is tried at: the end of the track and one inside it.
SeekTargets(d) == {ms \in {9, d} : ms <= d}

\* PlayerApp::update: if let Ok(cmd) = self.meta_rx.try_recv() { ... }
GuiReceive ==
    /\ gpc = "idle"
    /\ meta_q # <<>>
    /\ meta_q' = Tail(meta_q)
    /\ waveform' = IF Head(meta_q).kind = "Waveform" THEN Head(meta_q).bins ELSE waveform
    /\ UNCHANGED <<PLAYHEAD, CURRENT_POSITION, gpc, g_new_pos, n_inputs, not_gui>>

\* draw_overview_waveform, clicked or dragged: duration = DURATION.load();
\* new_pos = (fraction * duration) as u64 for a pointer inside the widget.
GuiOverviewSeek ==
    /\ gpc = "idle"
    /\ waveform # 0
    /\ n_inputs < MaxInputs
    /\ n_inputs' = n_inputs + 1
    /\ \E ms \in SeekTargets(DURATION) : g_new_pos' = ms
    /\ gpc' = "seek_playhead"
    /\ UNCHANGED <<PLAYHEAD, CURRENT_POSITION, waveform, meta_q, not_gui>>

\* draw_detailed_waveform, dragged: new_pos = (CURRENT_POSITION.load() +
\* time_delta * 1000.0).clamp(0, DURATION.load()), any position of the track
\* for a suitable drag.
GuiDetailedDrag ==
    /\ gpc = "idle"
    /\ waveform # 0
    /\ n_inputs < MaxInputs
    /\ n_inputs' = n_inputs + 1
    /\ \E ms \in SeekTargets(DURATION) : g_new_pos' = ms
    /\ gpc' = "seek_playhead"
    /\ UNCHANGED <<PLAYHEAD, CURRENT_POSITION, waveform, meta_q, not_gui>>

\* Either seek: PLAYHEAD.store(new_samples)
GuiSeekPlayhead ==
    /\ gpc = "seek_playhead"
    /\ PLAYHEAD' = SamplesOfMs(g_new_pos)
    /\ sought' = [by |-> "seek", frame |-> SamplesOfMs(g_new_pos)]
    /\ gpc' = "seek_position"
    /\ UNCHANGED <<CURRENT_POSITION, waveform, g_new_pos, n_inputs, meta_q, gui_bystanders>>

\* Either seek: CURRENT_POSITION.store(new_pos)
GuiSeekPosition ==
    /\ gpc = "seek_position"
    /\ CURRENT_POSITION' = g_new_pos
    /\ gpc' = "idle"
    /\ g_new_pos' = 0
    /\ UNCHANGED <<PLAYHEAD, waveform, n_inputs, meta_q, not_gui>>

\* ---------------------------------------------------------- specification
Feeder ==
    \/ FeederPoll
    \/ ChangeSongStop \/ ChangeSongPlayhead \/ ChangeSongPosition \/ ChangeSongDecode
    \/ ChangeSongWaveform \/ ChangeSongDuration \/ ChangeSongPlay
    \/ SkipForwardLoad \/ SkipForwardStore \/ SkipForwardPosition
    \/ SkipBackwardLoad \/ SkipBackwardStore \/ SkipBackwardPosition
    \/ FeederGate \/ FeederLoad \/ FeederWrapPlayhead \/ FeederWrapPosition
    \/ FeederSlots \/ FeederPush \/ FeederFetchAdd \/ FeederReload \/ FeederPosition

Callback == CallbackPaused \/ CallbackBegin \/ CallbackSlot

Control == ControlStop \/ ControlToggle \/ ControlSelect \/ ControlSkipForward
              \/ ControlSkipBackward

Gui ==
    \/ GuiReceive
    \/ GuiOverviewSeek \/ GuiDetailedDrag \/ GuiSeekPlayhead \/ GuiSeekPosition

Next == Feeder \/ Callback \/ Control \/ Gui

Spec == Init /\ [][Next]_vars

\* ------------------------------------------------- the ring buffer alone
\* try_push and try_pop in any order on a buffer of capacity 2 x block, the
\* k-th push offering frame k of track 1.
RingTryPush ==
    /\ Len(rb_log) < MaxRingOps
    /\ LET x == Frame(1, Cardinality({k \in DOMAIN rb_log : rb_log[k].op = "push"}))
           r == RbPush(ring, RingCapacity(block), x)
       IN  /\ ring' = r.rb
           /\ rb_log' = Append(rb_log, [op |-> "push", ok |-> r.ok, before |-> ring,
                                        val |-> x])
    /\ UNCHANGED <<shared, block, cmd_q, meta_q, feeder, callback, control, gui, n_inputs,
                   stop_hist, analysis, sought>>

RingTryPop ==
    /\ Len(rb_log) < MaxRingOps
    /\ LET r == RbPop(ring)
       IN  /\ ring' = r.rb
           /\ rb_log' = Append(rb_log, [op |-> "pop", ok |-> r.ok, before |-> ring,
                                        val |-> r.val])
    /\ UNCHANGED <<shared, block, cmd_q, meta_q, feeder, callback, control, gui, n_inputs,
                   stop_hist, analysis, sought>>

RingNext == RingTryPush \/ RingTryPop

RingSpec == Init /\ [][RingNext]_vars

\* ------------------------------------------------------- the skips alone
\* The feeder alone, paused on a loaded track at any playhead, with two skip
\* commands waiting in the channel.
SkipStarts(len) ==
    {p \in {0, 1, 2, SkipAmount - 1, SkipAmount, SkipAmount + 1,
            len - SkipAmount - 1, len - SkipAmount, len - SkipAmount + 1,
            len - 1, len} : 0 <= p /\ p <= len}

SkipInit ==
    /\ block \in BlockSizes
    /\ IS_PLAYING = FALSE
    /\ song \in Tracks
    /\ PLAYHEAD \in SkipStarts(SongLen(song))
    /\ CURRENT_POSITION = MsPosition(PLAYHEAD)
    /\ DURATION = DurationMs(SongLen(song))
    /\ cmd_q \in [1..2 -> {SkipForwardCmd, SkipBackwardCmd}]
    /\ ring = <<>> /\ meta_q = <<>>
    /\ fpc = "poll" /\ path = 0 /\ current_pos = 0 /\ new_pos = 0
    /\ chunk_size = 0 /\ idx = 0
    /\ cbpc = "idle" /\ blk = <<>> /\ out = [slots |-> <<>>, ret |-> "none"]
    /\ popped = <<>> /\ held = Silence /\ resumed = [held |-> Silence, got |-> Silence]
    /\ n_callbacks = 0
    /\ ctpc = "recv" /\ ct_seen = FALSE /\ n_inputs = 0
    /\ waveform = WaveformBins(SongLen(song)) /\ gpc = "idle" /\ g_new_pos = 0
    /\ pushed = <<>> /\ cs_log = <<>> /\ skip_log = <<>> /\ rb_log = <<>>
    /\ cb_in_cs = FALSE /\ sent = cmd_q /\ recvd = <<>> /\ ct_cmd = NoCmd
    /\ stop_hist = <<>>
    /\ AnalysisIdle
    /\ sought = NoSeek

SkipNext ==
    \/ FeederPoll \/ FeederGate
    \/ SkipForwardLoad \/ SkipForwardStore \/ SkipForwardPosition
    \/ SkipBackwardLoad \/ SkipBackwardStore \/ SkipBackwardPosition

SkipSpec == SkipInit /\ [][SkipNext]_vars

\* -------------------------------------------- a track change while playing
\* The program some time after "select" of the 5-frame file: the track is
\* playing, its first chunk is in the ring buffer (when the buffer is large
\* enough to be fed at all), the GUI has its waveform, and a second "select"
\* has just been queued.
FirstChunk == [k \in 1..Min(FEED_CHUNK, SongLen(1)) |-> Frame(1, k - 1)]

ReloadInit ==
    /\ block \in BlockSizes
    /\ IS_PLAYING = TRUE
    /\ song = 1
    /\ DURATION = DurationMs(SongLen(1))
    /\ waveform = WaveformBins(SongLen(1))
    /\ IF RingCapacity(block) >= FEED_CHUNK
       THEN /\ ring = FirstChunk
            /\ chunk_size = Len(FirstChunk) /\ idx = Len(FirstChunk)
       ELSE /\ ring = <<>>
            /\ chunk_size = 0 /\ idx = 0
    /\ pushed = ring
    /\ PLAYHEAD = Len(ring)
    /\ new_pos = PLAYHEAD
    /\ CURRENT_POSITION = MsPosition(PLAYHEAD)
    /\ \E p \in Paths :
         /\ cmd_q = <<ChangeSongCmd(p)>>
         /\ sent = <<ChangeSongCmd(1), ChangeSongCmd(p)>>
    /\ recvd = <<ChangeSongCmd(1)>>
    /\ cs_log = <<"IS_PLAYING=false", "PLAYHEAD=0", "CURRENT_POSITION=0", "track",
                  "waveform", "DURATION", "IS_PLAYING=true">>
    /\ meta_q = <<>>
    /\ fpc = "poll" /\ path = 0 /\ current_pos = 0
    /\ cbpc = "idle" /\ blk = <<>> /\ out = [slots |-> <<>>, ret |-> "none"]
    /\ popped = <<>> /\ held = Silence /\ resumed = [held |-> Silence, got |-> Silence]
    /\ n_callbacks = 0 /\ cb_in_cs = FALSE
    /\ ctpc = "recv" /\ ct_seen = FALSE /\ ct_cmd = NoCmd /\ n_inputs = 0
    /\ gpc = "idle" /\ g_new_pos = 0
    /\ skip_log = <<>> /\ rb_log = <<>> /\ stop_hist = <<>>
    /\ AnalysisIdle
    /\ sought = NoSeek

ReloadSpec == ReloadInit /\ [][Next]_vars

\* ------------------------------------------- the command channel when full
\* The program while the feeder is inside the synchronous decode of a "select"
\* and the control thread has since queued skips up to one short of the
\* channel's capacity.
QueuedSkips == [k \in 1..(CMD_CAPACITY - 1) |->
                  IF k % 2 = 1 THEN SkipForwardCmd ELSE SkipBackwardCmd]

ChannelInit ==
    /\ block \in BlockSizes
    /\ IS_PLAYING = FALSE /\ PLAYHEAD = 0 /\ CURRENT_POSITION = 0 /\ DURATION = 0
    /\ song = 0
    /\ fpc = "cs_decode"
    /\ path \in Tracks
    /\ cs_log = <<"IS_PLAYING=false", "PLAYHEAD=0", "CURRENT_POSITION=0">>
    /\ cmd_q = QueuedSkips
    /\ sent = <<ChangeSongCmd(path)>> \o QueuedSkips
    /\ recvd = <<ChangeSongCmd(path)>>
    /\ ring = <<>> /\ meta_q = <<>> /\ pushed = <<>>
    /\ current_pos = 0 /\ new_pos = 0 /\ chunk_size = 0 /\ idx = 0
    /\ cbpc = "idle" /\ blk = <<>> /\ out = [slots |-> <<>>, ret |-> "none"]
    /\ popped = <<>> /\ held = Silence /\ resumed = [held |-> Silence, got |-> Silence]
    /\ n_callbacks = 0 /\ cb_in_cs = FALSE
    /\ ctpc = "recv" /\ ct_seen = FALSE /\ ct_cmd = NoCmd /\ n_inputs = 0
    /\ waveform = 0 /\ gpc = "idle" /\ g_new_pos = 0
    /\ skip_log = <<>> /\ rb_log = <<>> /\ stop_hist = <<>>
    /\ AnalysisIdle
    /\ sought = NoSeek

ChannelNext == Feeder \/ Control \/ ControlSendBlocked

ChannelSpec == ChannelInit /\ [][ChannelNext]_vars

\* ------------------------------------------------- the program with no seek
\* The feeder, the callback and the control thread; the GUI only draws.
FeedNext == Feeder \/ Callback \/ Control

FeedSpec == Init /\ [][FeedNext]_vars


\* ---------------------------------------------------- decode_flac_to_vec
\* The frames packet p of a file of n packets decodes to (decoder.decode and
\* decode_audio_buffer of the map closure): a block of 2 frames, the last
\* packet of the file a shorter block of 1; frame i of packet p is <<p, i>>.
\* A FLAC packet decodes to the same block whichever worker's decoder takes it.
PacketFrames(p, n) == [i \in 1..(IF p = n THEN 1 ELSE 2) |-> <<p, i>>]

\* A reduce that puts the right-hand result first.
DecodeReduceOpPrepend(acc, chunk) == chunk \o acc

\* reduce_with(|mut acc, chunk| { acc.extend(chunk); acc })
DecodeReduceOp(acc, chunk) == acc \o chunk

\* A packet not yet decoded, and the Vec a worker holds for packets lo..hi.
Undecoded(p) == [lo |-> p, hi |-> p, done |-> FALSE, frames |-> <<>>]
Decoded(lo, hi, frames) == [lo |-> lo, hi |-> hi, done |-> TRUE, frames |-> frames]

\* packets.into_par_iter().map_init(..): some worker decodes some packet.
DecodeMap ==
    /\ \E k \in DOMAIN dec.parts :
         /\ ~dec.parts[k].done
         /\ dec' = [dec EXCEPT !.parts[k] =
                        Decoded(dec.parts[k].lo, dec.parts[k].hi,
                                PacketFrames(dec.parts[k].lo, dec.n))]
    /\ UNCHANGED <<program, smp, wf, siblings>>

\* reduce_with: rayon combines two partial results that are neighbours in the
\* packet order, the left one as acc; which pair comes next depends on how the
\* packet list was split and on the workers' timing.
DecodeReduce ==
    /\ \E k \in 1..(Len(dec.parts) - 1) :
         LET l == dec.parts[k]
             r == dec.parts[k + 1]
         IN  /\ l.done /\ r.done
             /\ dec' = [dec EXCEPT !.parts =
                            SubSeq(dec.parts, 1, k - 1)
                            \o <<Decoded(l.lo, r.hi, DecodeReduceOp(l.frames, r.frames))>>
                            \o SubSeq(dec.parts, k + 2, Len(dec.parts))]
    /\ UNCHANGED <<program, smp, wf, siblings>>

\* The reduce has returned: one result, or None for a file without packets.
DecodeDone == Len(dec.parts) <= 1 /\ \A k \in DOMAIN dec.parts : dec.parts[k].done

\* decoded_samples: .unwrap_or_default()
DecodedSamples == IF dec.parts = <<>> THEN <<>> ELSE dec.parts[1].frames

\* The packets of the file have been collected: while let Ok(packet) = ...
DecodeInit ==
    /\ block \in BlockSizes
    /\ InitProgram
    /\ SiblingsIdle
    /\ \E n \in 0..MaxPackets : dec = [n |-> n, parts |-> [p \in 1..n |-> Undecoded(p)]]
    /\ smp = [pc |-> "idle", fmt |-> "none", raw |-> [neg |-> FALSE, hi |-> 0, lo |-> 0],
              out |-> [neg |-> FALSE, num |-> [m |-> 0, e |-> 0], den |-> [m |-> 1, e |-> 0]]]
    /\ wf = [pc |-> "idle", song |-> <<>>, num_bins |-> 0, samples_per_bin |-> 0,
             bins |-> <<>>]

DecodeNext == DecodeMap \/ DecodeReduce

DecodeSpec == DecodeInit /\ [][DecodeNext]_vars


\* --------------------------------------------------- decode_audio_buffer
\* The integer formats of AudioBufferRef.
SampleFormats == {"U8", "S8", "U16", "S16", "U24", "S24", "U32", "S32"}

\* A raw sample: its sign and its magnitude hi * 2^16 + lo (a 32-bit magnitude
\* in two halves).
MagLE(r, hi, lo) == r.hi < hi \/ (r.hi = hi /\ r.lo <= lo)

\* The values of each format: u8, i8, u16, i16, u24, i24, u32, i32.
InFormat(fmt, r) ==
    /\ r.neg => (r.hi # 0 \/ r.lo # 0)
    /\ CASE fmt = "U8"  -> ~r.neg /\ MagLE(r, 0, 255)
         [] fmt = "S8"  -> IF r.neg THEN MagLE(r, 0, 128) ELSE MagLE(r, 0, 127)
         [] fmt = "U16" -> ~r.neg /\ MagLE(r, 0, 65535)
         [] fmt = "S16" -> IF r.neg THEN MagLE(r, 0, 32768) ELSE MagLE(r, 0, 32767)
         [] fmt = "U24" -> ~r.neg /\ MagLE(r, 255, 65535)
         [] fmt = "S24" -> IF r.neg THEN MagLE(r, 128, 0) ELSE MagLE(r, 127, 65535)
         [] fmt = "U32" -> ~r.neg
         [] fmt = "S32" -> IF r.neg THEN MagLE(r, 32768, 0) ELSE MagLE(r, 32767, 65535)

\* The halves the raw samples of a run are made of: the ends and the middle of
\* every format's range and their neighbours.
RawHalves == {0, 1, 127, 128, 255, 256, 32767, 32768, 65534, 65535}
RawValues(fmt) ==
    {r \in [neg : BOOLEAN, hi : RawHalves, lo : RawHalves] : InFormat(fmt, r)}

\* `as f32` of the integer hi * 2^16 + lo: the f32 m * 2^e nearest to it, ties
\* to the even mantissa (24 bits of mantissa; integers below 2^24 are exact).
F32OfMag(hi, lo) ==
    IF hi < 256
    THEN [m |-> hi * 65536 + lo, e |-> 0]
    ELSE LET bits == CHOOSE b \in 9..16 : 2^(b - 1) <= hi /\ hi < 2^b
             e == bits - 8
             a == hi * 2^(16 - e) + lo \div 2^e
             rest == lo % 2^e
             up == 2 * rest > 2^e \/ (2 * rest = 2^e /\ a % 2 = 1)
         IN  IF ~up THEN [m |-> a, e |-> e]
             ELSE IF a + 1 = 2^24 THEN [m |-> 2^23, e |-> e + 1]
             ELSE [m |-> a + 1, e |-> e]

\* The f32 each format's sample is divided by: 128.0, u16::MAX as f32,
\* i16::MAX as f32, 8388607.0, u32::MAX as f32, i32::MAX as f32.
Divisor(fmt) ==
    CASE fmt \in {"U8", "S8"} -> F32OfMag(0, 128)
      [] fmt = "U16" -> F32OfMag(0, 65535)
      [] fmt = "S16" -> F32OfMag(0, 32767)
      [] fmt \in {"U24", "S24"} -> F32OfMag(127, 65535)
      [] fmt = "U32" -> F32OfMag(65535, 65535)
      [] fmt = "S32" -> F32OfMag(32767, 65535)

\* The sample as the f32 that is divided: *left as f32 - 128.0 for U8 (exact),
\* left.inner() as f32 for U24 and S24, *left as f32 for the others.
Dividend(fmt, r) ==
    IF fmt = "U8"
    THEN [neg |-> r.lo < 128,
          num |-> [m |-> IF r.lo < 128 THEN 128 - r.lo ELSE r.lo - 128, e |-> 0]]
    ELSE [neg |-> r.neg, num |-> F32OfMag(r.hi, r.lo)]

\* One channel of one frame: the quotient pushed to decoded_samples, as its
\* sign and the two f32 operands of the division.
NormalizeSample ==
    /\ smp.pc = "raw"
    /\ smp' = [smp EXCEPT !.pc = "done",
                          !.out = [neg |-> Dividend(smp.fmt, smp.raw).neg,
                                   num |-> Dividend(smp.fmt, smp.raw).num,
                                   den |-> Divisor(smp.fmt)]]
    /\ UNCHANGED <<program, dec, wf, siblings>>

\* The f32 quotient num / den has magnitude at most 1.0. The operands are
\* m * 2^e with m < 2^24, and m >= 2^23 when e > 0, so the exponents decide
\* unless they are equal; a quotient above 1 rounds to 1.0 only up to 1 + 2^-24.
InUnitRange(num, den) ==
    IF num.e # den.e THEN num.e < den.e
    ELSE num.m <= den.m \/ num.m - den.m <= den.m \div 2^24

\* A decoded buffer of some format holds some sample.
NormInit ==
    /\ block \in BlockSizes
    /\ InitProgram
    /\ SiblingsIdle
    /\ dec = [n |-> 0, parts |-> <<>>]
    /\ wf = [pc |-> "idle", song |-> <<>>, num_bins |-> 0, samples_per_bin |-> 0,
             bins |-> <<>>]
    /\ \E fmt \in SampleFormats : \E r \in RawValues(fmt) :
         smp = [pc |-> "raw", fmt |-> fmt, raw |-> r,
                out |-> [neg |-> FALSE, num |-> [m |-> 0, e |-> 0], den |-> [m |-> 1, e |-> 0]]]

NormSpec == NormInit /\ [][NormalizeSample]_vars


\* ------------------------------------------------------ generate_waveform
\* The f32 values of the analysis are kept in fixed point, v standing for
\* v / SCALE, every product and quotient cut to a multiple of 1 / SCALE. Like
\* f32 it is exact on zero: 0 * x = 0, 0 + 0 = 0, 0 / n = 0, sqrt(0) = 0.
SCALE == 10000
\* 0.0 / 0.0 (an RMS is never negative otherwise).
NaN == -1

\* low_coeff and mid_low_coeff; mid_high_coeff and high_coeff
COEFF_300HZ == 9961
COEFF_4KHZ == 9484

Abs(a) == IF a >= 0 THEN a ELSE -a
FMul(a, b) == IF a * b >= 0 THEN (a * b) \div SCALE ELSE -((-(a * b)) \div SCALE)
FDiv(a, n) == IF n = 0 THEN NaN ELSE a \div n
\* .sqrt(): the largest r with r * r <= a * SCALE, found by bisection in lo..hi.
RECURSIVE SqrtIn(_, _, _)
SqrtIn(x, lo, hi) ==
    IF hi - lo <= 1 THEN lo
    ELSE LET mid == (lo + hi) \div 2
         IN  IF mid * mid <= x THEN SqrtIn(x, mid, hi) ELSE SqrtIn(x, lo, mid)
FSqrt(a) == IF a < 0 THEN NaN ELSE SqrtIn(a * SCALE, 0, 46340)

\* A bin count that rounds the chunk size down.
SamplesPerBinFloor(len, num_bins) == len \div num_bins

\* let samples_per_bin = (song.len() + num_bins - 1) / num_bins
SamplesPerBin(len, num_bins) == (len + num_bins - 1) \div num_bins

\* The filter states, sums and peaks of one channel at the start of a chunk.
ChannelStart ==
    [low |-> 0, mid_low |-> 0, mid_high |-> 0, high |-> 0,
     low_sum |-> 0, mid_sum |-> 0, high_sum |-> 0,
     low_peak |-> 0, mid_peak |-> 0, high_peak |-> 0]

\* One iteration of the loop over the chunk, for one channel and its sample x.
ChannelStep(c, x) ==
    LET low == FMul(c.low, COEFF_300HZ) + FMul(x, SCALE - COEFF_300HZ)
        mid_low == FMul(c.mid_low, COEFF_300HZ) + FMul(x, SCALE - COEFF_300HZ)
        mid_high == FMul(c.mid_high, COEFF_4KHZ) + FMul(x, SCALE - COEFF_4KHZ)
        mid == mid_high - mid_low
        high == x - (FMul(c.high, COEFF_4KHZ) + FMul(x, SCALE - COEFF_4KHZ))
    IN  [low |-> low, mid_low |-> mid_low, mid_high |-> mid_high, high |-> high,
         low_sum |-> c.low_sum + FMul(low, low),
         mid_sum |-> c.mid_sum + FMul(mid, mid),
         high_sum |-> c.high_sum + FMul(high, high),
         low_peak |-> Max(c.low_peak, Abs(low)),
         mid_peak |-> Max(c.mid_peak, Abs(mid)),
         high_peak |-> Max(c.high_peak, Abs(high))]

\* for &(left, right) in &song[chunk_start..chunk_end], channel ch of the
\* frames (indices from 0).
RECURSIVE ChannelOver(_, _, _, _)
ChannelOver(frames, chunk_start, chunk_end, ch) ==
    IF chunk_start >= chunk_end THEN ChannelStart
    ELSE ChannelStep(ChannelOver(frames, chunk_start, chunk_end - 1, ch), frames[chunk_end][ch])

\* struct FrequencyBand
FrequencyBand(rms_l, rms_r, peak_l, peak_r) ==
    [rms_left |-> rms_l, rms_right |-> rms_r, peak_left |-> peak_l, peak_right |-> peak_r]

\* A bin that runs the filters over its chunk even when the chunk is empty.
WaveformBinUnguarded(frames, chunk_start, samples_per_bin) ==
    LET chunk_end == Min(chunk_start + samples_per_bin, Len(frames))
        l == ChannelOver(frames, Min(chunk_start, chunk_end), chunk_end, 1)
        r == ChannelOver(frames, Min(chunk_start, chunk_end), chunk_end, 2)
        n == Max(chunk_end - chunk_start, 0)
    IN  [low |-> FrequencyBand(FSqrt(FDiv(l.low_sum, n)), FSqrt(FDiv(r.low_sum, n)),
                               l.low_peak, r.low_peak),
         mid |-> FrequencyBand(FSqrt(FDiv(l.mid_sum, n)), FSqrt(FDiv(r.mid_sum, n)),
                               l.mid_peak, r.mid_peak),
         high |-> FrequencyBand(FSqrt(FDiv(l.high_sum, n)), FSqrt(FDiv(r.high_sum, n)),
                                l.high_peak, r.high_peak),
         chunk |-> <<chunk_start, chunk_end>>]

\* struct WaveformBin of one iteration of the loop over the bins: all zeros when
\* the chunk starts at or past the end of the track, the RMS and peak of the
\* three bands over song[chunk_start..chunk_end] otherwise. chunk records the
\* frames the bin was computed from, chunk_start up to chunk_end - 1.
WaveformBin(frames, chunk_start, samples_per_bin) ==
    LET chunk_end == Min(chunk_start + samples_per_bin, Len(frames))
        l == ChannelOver(frames, chunk_start, chunk_end, 1)
        r == ChannelOver(frames, chunk_start, chunk_end, 2)
        n == chunk_end - chunk_start
    IN  IF chunk_start >= Len(frames)
        THEN [low |-> FrequencyBand(0, 0, 0, 0), mid |-> FrequencyBand(0, 0, 0, 0),
              high |-> FrequencyBand(0, 0, 0, 0), chunk |-> <<chunk_start, chunk_end>>]
        ELSE [low |-> FrequencyBand(FSqrt(FDiv(l.low_sum, n)), FSqrt(FDiv(r.low_sum, n)),
                                    l.low_peak, r.low_peak),
              mid |-> FrequencyBand(FSqrt(FDiv(l.mid_sum, n)), FSqrt(FDiv(r.mid_sum, n)),
                                    l.mid_peak, r.mid_peak),
              high |-> FrequencyBand(FSqrt(FDiv(l.high_sum, n)), FSqrt(FDiv(r.high_sum, n)),
                                     l.high_peak, r.high_peak),
              chunk |-> <<chunk_start, chunk_end>>]

\* if song.is_empty() { return vec![] }; let samples_per_bin = ...
WaveformEnter ==
    /\ wf.pc = "call"
    /\ wf' = IF wf.song = <<>>
             THEN [wf EXCEPT !.pc = "done"]
             ELSE [wf EXCEPT !.pc = "bins",
                             !.samples_per_bin = SamplesPerBin(Len(wf.song), wf.num_bins)]
    /\ UNCHANGED <<program, dec, smp, siblings>>

\* for bin in 0..num_bins { ...; waveform.push(WaveformBin { .. }) }
WaveformPushBin ==
    /\ wf.pc = "bins"
    /\ Len(wf.bins) < wf.num_bins
    /\ wf' = [wf EXCEPT !.bins = Append(wf.bins,
                  WaveformBin(wf.song, Len(wf.bins) * wf.samples_per_bin,
                              wf.samples_per_bin))]
    /\ UNCHANGED <<program, dec, smp, siblings>>

\* The loop is over: return waveform.
WaveformReturn ==
    /\ wf.pc = "bins"
    /\ Len(wf.bins) = wf.num_bins
    /\ wf' = [wf EXCEPT !.pc = "done"]
    /\ UNCHANGED <<program, dec, smp, siblings>>

\* The frames of the tracks analysed: silence, and both channels at full scale.
WaveformFrames == {<<0, 0>>, <<SCALE, -SCALE>>}

\* generate_waveform is called with some track and some bin count.
WaveformInit ==
    /\ block \in BlockSizes
    /\ InitProgram
    /\ SiblingsIdle
    /\ dec = [n |-> 0, parts |-> <<>>]
    /\ smp = [pc |-> "idle", fmt |-> "none", raw |-> [neg |-> FALSE, hi |-> 0, lo |-> 0],
              out |-> [neg |-> FALSE, num |-> [m |-> 0, e |-> 0], den |-> [m |-> 1, e |-> 0]]]
    /\ \E len \in 0..MaxFrames : \E song_ \in [1..len -> WaveformFrames] :
       \E bins \in 1..MaxBins :
         wf = [pc |-> "call", song |-> song_, num_bins |-> bins, samples_per_bin |-> 0,
               bins |-> <<>>]

WaveformNext == WaveformEnter \/ WaveformPushBin \/ WaveformReturn

WaveformSpec == WaveformInit /\ [][WaveformNext]_vars


\* ------------------------------------------- the control thread may end
\* The feeder, the callback and a control thread that may end at any message.
OrphanNext == Feeder \/ Callback \/ Control \/ ControlExit

OrphanSpec == Init /\ [][OrphanNext]_vars


\* ------------------------------------- commands while paused or buffered
\* The first chunk of track s.
ChunkOf(s) == [k \in 1..Min(FEED_CHUNK, SongLen(s)) |-> Frame(s, k - 1)]

\* The program some time after "select": the track's first chunk is in the ring
\* buffer, which has no room for another, or nothing is (the buffer is too small
\* to be fed at all, or a stop message came before the first feed step);
\* playback runs or a stop message has paused it; one or two commands have just
\* been queued. From here only the feeder runs: the callback pops nothing and
\* no further message arrives.
PollCommands == {SkipForwardCmd, SkipBackwardCmd} \cup {ChangeSongCmd(p) : p \in Paths}

PollInit ==
    /\ block \in BlockSizes
    /\ song \in Tracks
    /\ IS_PLAYING \in BOOLEAN
    /\ DURATION = DurationMs(SongLen(song))
    /\ waveform = WaveformBins(SongLen(song))
    /\ \E fed \in BOOLEAN :
         /\ fed => RingCapacity(block) >= FEED_CHUNK
         /\ IF fed
            THEN /\ ring = ChunkOf(song)
                 /\ chunk_size = Len(ChunkOf(song)) /\ idx = Len(ChunkOf(song))
            ELSE /\ ring = <<>>
                 /\ chunk_size = 0 /\ idx = 0
         /\ stop_hist = IF ~IS_PLAYING THEN <<TRUE>>
                        ELSE IF fed \/ RingCapacity(block) < FEED_CHUNK THEN <<>>
                        ELSE <<TRUE, FALSE>>
    /\ pushed = ring
    /\ PLAYHEAD = Len(ring)
    /\ new_pos = PLAYHEAD
    /\ CURRENT_POSITION = MsPosition(PLAYHEAD)
    /\ \E n \in 1..2 : cmd_q \in [1..n -> PollCommands]
    /\ sent = <<ChangeSongCmd(song)>> \o cmd_q
    /\ recvd = <<ChangeSongCmd(song)>>
    /\ cs_log = <<"IS_PLAYING=false", "PLAYHEAD=0", "CURRENT_POSITION=0", "track",
                  "waveform", "DURATION", "IS_PLAYING=true">>
    /\ meta_q = <<>>
    /\ fpc = "poll" /\ path = 0 /\ current_pos = 0
    /\ cbpc = "idle" /\ blk = <<>> /\ out = [slots |-> <<>>, ret |-> "none"]
    /\ popped = <<>> /\ held = Silence /\ resumed = [held |-> Silence, got |-> Silence]
    /\ n_callbacks = 0 /\ cb_in_cs = FALSE
    /\ ctpc = "recv" /\ ct_seen = FALSE /\ ct_cmd = NoCmd /\ n_inputs = 0
    /\ gpc = "idle" /\ g_new_pos = 0
    /\ skip_log = <<>> /\ rb_log = <<>>
    /\ AnalysisIdle
    /\ sought = NoSeek

\* The feeder's thread is scheduled again and again: each iteration ends in
\* thread::sleep(1 ms) and nothing in the loop waits for another thread.
PollSpec == PollInit /\ [][Feeder]_vars /\ WF_vars(Feeder)


\* ------------------------------------ a track change while playing, no seek
\* As ReloadSpec, with the other file selected and a GUI that only draws.
SwapInit == ReloadInit /\ cmd_q = <<ChangeSongCmd(2)>>

SwapSpec == SwapInit /\ [][FeedNext]_vars


\* ------------------------------------------------- crates/player (streaming)
\* jack_buffer_size of the run.
PlayerBlock == 1
\* let rtrb_buffer_size = jack_buffer_size * 32 (main.rs:74), scaled down so
\* that the interleavings of a whole buffer of pushes and pops are enumerated.
PlayerRingBlocks == 2
PlayerCapacity == PlayerBlock * PlayerRingBlocks
\* bounded::<PlayerCommand>(32)
PLAYER_CMD_CAPACITY == 32
\* bounded::<MetaCommand>(32) (main.rs:78), scaled down: the channel fills
\* while decode_flac reopens a finished file.
PlayerMetaCapacity == 2
\* reader.streaminfo().sample_rate of the files
PlayerSampleRate == 48000

\* Frames of the initial file beyond one ring buffer.
PlayerExtraFrames == 3
\* Frame counts of the files: path 1 is ./music/psy.flac, path 2 a short file,
\* PlayerBadPath a file File::open fails on.
PlayerTrackLens == <<PlayerCapacity + PlayerExtraFrames, 2>>
PlayerTracks == 1..Len(PlayerTrackLens)
PlayerBadPath == Len(PlayerTrackLens) + 1
PlayerPaths == PlayerTracks \cup {PlayerBadPath}
\* The number of samples reader.samples() yields: two per frame.
PlayerSamples(p) == 2 * PlayerTrackLens[p]

\* The frame made of the samples l and r of file p; frame i of the file is
\* made of its samples 2i and 2i + 1.
PlayerFrame(p, l, r) == <<p, l, r>>
TrackFrame(p, i) == PlayerFrame(p, 2 * i, 2 * i + 1)

\* A decode_flac that starts at sample skip_samples.
DecodeStartAtFrameCount(skip_samples) == skip_samples

\* let mut sample_index = skip_samples * 2
DecodeStart(skip_samples) == skip_samples * 2

\* main() up to prefill_buffer(&audio_file_path, &mut producer, rtrb_buffer_size)
PlayerInit ==
    /\ block = PlayerBlock
    /\ InitProgram
    /\ dec = [n |-> 0, parts |-> <<>>]
    /\ smp = [pc |-> "idle", fmt |-> "none", raw |-> [neg |-> FALSE, hi |-> 0, lo |-> 0],
              out |-> [neg |-> FALSE, num |-> [m |-> 0, e |-> 0], den |-> [m |-> 1, e |-> 0]]]
    /\ wf = [pc |-> "idle", song |-> <<>>, num_bins |-> 0, samples_per_bin |-> 0,
             bins |-> <<>>]
    /\ sp = [PlayerOff EXCEPT !.pc = "prefill", !.path = 1]
    /\ net = NetOff
    /\ sel = SelectorOff

not_player == <<program, dec, smp, wf, net, sel>>

\* prefill_buffer: one iteration of `for sample in reader.samples()`; when the
\* loop ends main() spawns decode_flac with skip_samples = rtrb_buffer_size.
PrefillSample ==
    /\ sp.pc = "prefill"
    /\ IF sp.read >= PlayerSamples(sp.path) \/ sp.samples_written >= PlayerCapacity
       THEN sp' = [sp EXCEPT !.pc = "poll", !.left_sample = -1, !.read = 0,
                             !.sample_index = DecodeStart(PlayerCapacity)]
       ELSE IF sp.left_sample = -1
       THEN sp' = [sp EXCEPT !.left_sample = sp.read, !.read = sp.read + 1]
       ELSE LET r == RbPush(sp.ring, PlayerCapacity,
                            PlayerFrame(sp.path, sp.left_sample, sp.read))
            IN  sp' = [sp EXCEPT !.ring = r.rb,
                                 !.pushed = IF r.ok THEN Append(@, PlayerFrame(sp.path,
                                                   sp.left_sample, sp.read))
                                            ELSE @,
                                 !.samples_written = IF r.ok THEN @ + 1 ELSE @,
                                 !.left_sample = -1,
                                 !.read = sp.read + 1]
    /\ UNCHANGED not_player

\* decode_flac: if let Ok(ChangeSong(new_path)) = cmd_rx.try_recv() { *path =
\* new_path; sample_index = 0; continue }
PlayerPoll ==
    /\ sp.pc = "poll"
    /\ IF sp.cmd_q # <<>>
       THEN sp' = [sp EXCEPT !.path = Head(sp.cmd_q), !.sample_index = 0,
                             !.cmd_q = Tail(sp.cmd_q), !.changes = @ + 1]
       ELSE sp' = [sp EXCEPT !.pc = "open"]
    /\ UNCHANGED not_player

\* File::open(&path).expect(..); FlacReader::new(..); meta_tx.send(Metadata(..))
\* .expect(..); samples = reader.samples().skip(sample_index)
PlayerOpen ==
    /\ sp.pc = "open"
    /\ IF sp.path = PlayerBadPath
       THEN sp' = [sp EXCEPT !.pc = "dead"]
       ELSE /\ sp.meta < PlayerMetaCapacity
            /\ sp' = [sp EXCEPT !.pc = "next", !.meta = @ + 1, !.left_sample = -1]
    /\ UNCHANGED not_player

\* for sample in samples: the next sample, or the end of the file and the next
\* pass of the outer loop.
PlayerNextSample ==
    /\ sp.pc = "next"
    /\ sp' = [sp EXCEPT !.pc = IF sp.sample_index >= PlayerSamples(sp.path)
                               THEN "poll" ELSE "wait"]
    /\ UNCHANGED not_player

\* while !IS_PLAYING.load() { sleep }: one load; the loop is left when it is true.
PlayerWait ==
    /\ sp.pc = "wait"
    /\ sp' = [sp EXCEPT !.pc = IF ~sp.IS_PLAYING THEN "wait"
                               ELSE IF sp.sample_index % (PlayerSampleRate * 2) = 0
                               THEN "position" ELSE "take"]
    /\ UNCHANGED not_player

\* CURRENT_POSITION.store(sample_index as u32 / (2 * sample_rate as u32))
PlayerPosition ==
    /\ sp.pc = "position"
    /\ sp' = [sp EXCEPT !.pc = "take",
                        !.CURRENT_POSITION = sp.sample_index \div (2 * PlayerSampleRate)]
    /\ UNCHANGED not_player

\* match left_sample.take() { None => { left_sample = Some(sample);
\* sample_index += 1 }, Some(left) => the push below }
PlayerTake ==
    /\ sp.pc = "take"
    /\ IF sp.left_sample = -1
       THEN sp' = [sp EXCEPT !.pc = "next", !.left_sample = sp.sample_index,
                             !.sample_index = @ + 1]
       ELSE sp' = [sp EXCEPT !.pc = "push"]
    /\ UNCHANGED not_player

\* while producer.push((left, sample)).is_err() { sleep }: one push; after the
\* one that succeeds, sample_index += 1.
PlayerPush ==
    /\ sp.pc = "push"
    /\ LET x == PlayerFrame(sp.path, sp.left_sample, sp.sample_index)
           r == RbPush(sp.ring, PlayerCapacity, x)
       IN  IF r.ok
           THEN sp' = [sp EXCEPT !.pc = "next", !.ring = r.rb, !.pushed = Append(@, x),
                                 !.left_sample = -1, !.sample_index = @ + 1]
           ELSE sp' = [sp EXCEPT !.retried = TRUE]
    /\ UNCHANGED not_player

PlayerDecoder ==
    \/ PlayerPoll \/ PlayerOpen \/ PlayerNextSample \/ PlayerWait \/ PlayerPosition
    \/ PlayerTake \/ PlayerPush

\* process_callback: if !IS_PLAYING.load() { silence; return }, else the loop
\* over the block's slots begins.
PlayerCallbackBegin ==
    /\ sp.pc \notin {"off", "prefill"}
    /\ sp.slots = 0
    /\ sp' = [sp EXCEPT !.slots = IF sp.IS_PLAYING THEN PlayerBlock ELSE 0]
    /\ UNCHANGED not_player

\* One slot: consumer.pop() or (0.0, 0.0).
PlayerCallbackSlot ==
    /\ sp.slots > 0
    /\ sp' = [sp EXCEPT !.slots = @ - 1, !.ring = RbPop(sp.ring).rb]
    /\ UNCHANGED not_player

PlayerCallback == PlayerCallbackBegin \/ PlayerCallbackSlot

\* control_thread, "xone.library.stop": IS_PLAYING.store(!IS_PLAYING.load())
PlayerControlStop ==
    /\ sp.pc \notin {"off", "prefill"}
    /\ sp.inputs < MaxInputs
    /\ sp' = [sp EXCEPT !.inputs = @ + 1, !.IS_PLAYING = ~sp.IS_PLAYING]
    /\ UNCHANGED not_player

\* control_thread, "xone.player.1.select": cmd_tx.send(ChangeSong(path))
PlayerControlSelect ==
    /\ sp.pc \notin {"off", "prefill"}
    /\ sp.inputs < MaxInputs
    /\ Len(sp.cmd_q) < PLAYER_CMD_CAPACITY
    /\ \E p \in PlayerPaths :
         sp' = [sp EXCEPT !.inputs = @ + 1, !.cmd_q = Append(@, p)]
    /\ UNCHANGED not_player

PlayerControl == PlayerControlStop \/ PlayerControlSelect

\* PlayerApp::update: if let Ok(cmd) = self.meta_rx.try_recv() { .. }
PlayerGuiReceive ==
    /\ sp.meta > 0
    /\ sp' = [sp EXCEPT !.meta = @ - 1]
    /\ UNCHANGED not_player

PlayerNext ==
    PrefillSample \/ PlayerDecoder \/ PlayerCallback \/ PlayerControl \/ PlayerGuiReceive

\* decode_flac's thread keeps running (its waits are sleeps), JACK calls the
\* callback for every block, and the GUI repaints every 12 ms.
PlayerSpec ==
    /\ PlayerInit
    /\ [][PlayerNext]_vars
    /\ WF_vars(PlayerDecoder) /\ WF_vars(PlayerCallback) /\ WF_vars(PlayerGuiReceive)


\* ---------------------------------------------------------------- the control plane
\* SARASVATI (the controller), AKASHA (the file selector) and ANAHATA's control
\* thread talk over NATS. A subject is the sequence of its dot-separated tokens.

MaxEvents == 2

\* NATS subject matching: "*" stands for one token, a trailing ">" for one or more.
RECURSIVE NatsMatches(_, _)
NatsMatches(pattern, subject) ==
    IF pattern = <<>> THEN subject = <<>>
    ELSE IF Head(pattern) = ">" THEN Len(pattern) = 1 /\ subject # <<>>
    ELSE /\ subject # <<>>
         /\ Head(pattern) \in {"*", Head(subject)}
         /\ NatsMatches(Tail(pattern), Tail(subject))

AnahataSubscription == <<"xone", ">">>
AkashaSubscription == <<"akasha", ">">>

Message(subject, data) == [subject |-> subject, data |-> data]

\* format!("{}", b) of a bool.
BoolDisplay(b) == IF b THEN "true" ELSE "false"

\* The XoneMessages the controller thread forwards: the six mapped buttons and an
\* unmapped one, the browse encoder (14) and another, a fader and a knob.
ButtonIds == {25, 26, 29, 30, 41, 42, 1}
EncoderIds == {14, 0}
Directions == {"Clockwise", "CounterClockwise"}
XoneMessages ==
    [kind : {"Button"}, id : ButtonIds, pressed : BOOLEAN, select_shift : BOOLEAN]
        \cup [kind : {"Encoder"}, id : EncoderIds, direction : Directions]
        \cup [kind : {"Fader", "Knob"}, id : {0}, value : {0}]

\* run_nats, `match id`: the control subject of a pressed button; <<>> for `_ => {}`.
ButtonSubject(id, select_shift) ==
    CASE id = 30 -> <<"anahata", "2", "skipbackward">>
      [] id = 26 -> <<"anahata", "2", "skipforward">>
      [] id = 29 -> <<"anahata", "1", "skipbackward">>
      [] id = 25 -> <<"anahata", "1", "skipforward">>
      [] id = 41 -> IF select_shift THEN <<"akasha", "1", "select">>
                    ELSE <<"anahata", "1", "stop">>
      [] id = 42 -> IF select_shift THEN <<"akasha", "2", "select">>
                    ELSE <<"anahata", "2", "stop">>
      [] OTHER -> <<>>

\* run_nats: the messages one XoneMessage makes SARASVATI publish, in order.
run_nats(msg) ==
    CASE msg.kind = "Fader" ->
           <<Message(<<"xone", "fader">>, ToString(msg.id) \o "," \o ToString(msg.value))>>
      [] msg.kind = "Encoder" ->
           IF msg.id = 14 THEN <<Message(<<"akasha", "select">>, msg.direction)>>
           ELSE <<Message(<<"xone", "encoder">>, ToString(msg.id) \o "," \o msg.direction)>>
      [] msg.kind = "Button" ->
           (IF msg.pressed /\ ButtonSubject(msg.id, msg.select_shift) # <<>>
            THEN <<Message(ButtonSubject(msg.id, msg.select_shift), "na")>>
            ELSE <<>>)
           \o <<Message(<<"xone", "button">>,
                        ToString(msg.id) \o "," \o BoolDisplay(msg.pressed))>>
      [] msg.kind = "Knob" ->
           <<Message(<<"xone", "knob">>, ToString(msg.id) \o "," \o ToString(msg.value))>>

ToAnahata(message) == NatsMatches(AnahataSubscription, message.subject)
ToAkasha(message) == NatsMatches(AkashaSubscription, message.subject)

\* nc.publish of messages, in order: the server queues each on the subscriptions
\* its subject matches.
Publish(n, messages) ==
    [n EXCEPT !.published = @ \o messages,
              !.anahata_sub = @ \o SelectSeq(messages, ToAnahata),
              !.akasha_sub = @ \o SelectSeq(messages, ToAkasha)]

\* The music directory: an empty album, an album of two tracks and a track.
ReadDir(dir) ==
    CASE dir = "./music" ->
           {[kind |-> "Dir", path |-> "./music/empty"],
            [kind |-> "Dir", path |-> "./music/album"],
            [kind |-> "FlacFile", path |-> "./music/psy.flac"]}
      [] dir = "./music/album" ->
           {[kind |-> "FlacFile", path |-> "./music/album/1.flac"],
            [kind |-> "FlacFile", path |-> "./music/album/2.flac"]}
      [] OTHER -> {}

\* fs::read_dir yields the entries in no particular order.
Orders(entries) ==
    {s \in [1..Cardinality(entries) -> entries] : \A e \in entries : \E k \in DOMAIN s : s[k] = e}

\* load_directory: the entries, directories sorted before flac files.
load_directory(dir) ==
    {s \in Orders(ReadDir(dir)) :
        \A i, j \in DOMAIN s : i < j => ~(s[i].kind = "FlacFile" /\ s[j].kind = "Dir")}

\* n.parse::<u32>() of a subject token; NotANumber for Err.
NotANumber == -1
Digits == 0..9
ParseU32(token) ==
    IF \E n \in Digits : ToString(n) = token
    THEN CHOOSE n \in Digits : ToString(n) = token
    ELSE NotANumber

\* AKASHA's NATS thread: the UiMessage a message becomes; kind "none" for `_ => ()`.
AkashaUiMessage(message) ==
    IF /\ Len(message.subject) >= 2
       /\ message.subject[Len(message.subject)] = "select"
       /\ ParseU32(message.subject[2]) # NotANumber
    THEN [kind |-> "Select", player |-> ParseU32(message.subject[2])]
    ELSE IF message.data = "Clockwise" THEN [kind |-> "Increment"]
    ELSE IF message.data = "CounterClockwise" THEN [kind |-> "Decrement"]
    ELSE [kind |-> "none"]

\* usize::MAX, cut to the largest integer the checker holds.
USIZE_MAX == 2147483647
Overflowed == -1

\* a - b on usize: with overflow checks (debug) an underflow panics, without them
\* (release) it wraps.
UsizeSub(a, b, overflow_checks) ==
    IF a >= b THEN a - b
    ELSE IF overflow_checks THEN Overflowed
    ELSE USIZE_MAX - (b - a) + 1

\* control_thread, `match msg.subject.as_ref()`: the arm taken; "none" for `_ => {}`.
AnahataArm(subject) ==
    CASE subject = <<"xone", "player", "stop">> -> "stop"
      [] subject = <<"xone", "player", "1", "select">> -> "select"
      [] subject = <<"xone", "player", "1", "skipforward">> -> "skipforward"
      [] subject = <<"xone", "player", "1", "skipbackward">> -> "skipbackward"
      [] OTHER -> "none"

DeckInit ==
    /\ block \in BlockSizes
    /\ InitProgram
    /\ dec = [n |-> 0, parts |-> <<>>]
    /\ smp = [pc |-> "idle", fmt |-> "none", raw |-> [neg |-> FALSE, hi |-> 0, lo |-> 0],
              out |-> [neg |-> FALSE, num |-> [m |-> 0, e |-> 0], den |-> [m |-> 1, e |-> 0]]]
    /\ wf = [pc |-> "idle", song |-> <<>>, num_bins |-> 0, samples_per_bin |-> 0,
             bins |-> <<>>]
    /\ sp = PlayerOff
    /\ net = NetOff
    /\ \E files \in Orders(ReadDir("./music")) :
          sel = [SelectorOff EXCEPT !.pc = "run", !.files = files,
                                    !.current_dir = "./music"]

not_deck == <<program, dec, smp, wf, sp>>

\* SARASVATI's run_nats handles one XoneMessage.
XoneEvent ==
    /\ net.events < MaxEvents
    /\ \E msg \in XoneMessages :
          net' = [Publish(net, run_nats(msg)) EXCEPT !.events = @ + 1]
    /\ UNCHANGED <<not_deck, sel>>

\* AKASHA's NATS thread takes one message off its subscription.
AkashaNats ==
    /\ sel.pc = "run"
    /\ net.akasha_sub # <<>>
    /\ LET ui == AkashaUiMessage(Head(net.akasha_sub)) IN
          sel' = IF ui.kind = "none" THEN sel ELSE [sel EXCEPT !.ui_q = Append(@, ui)]
    /\ net' = [net EXCEPT !.akasha_sub = Tail(@)]
    /\ UNCHANGED not_deck

\* FileSelectorApp::update, one round of `while let Ok(message) = try_recv()`.
AkashaUpdate ==
    /\ sel.pc = "run"
    /\ sel.ui_q # <<>>
    /\ LET message == Head(sel.ui_q)
           rest == [sel EXCEPT !.ui_q = Tail(@)]
       IN  CASE message.kind = "Increment" ->
                  \E overflow_checks \in BOOLEAN :
                     LET last == UsizeSub(Len(sel.files), 1, overflow_checks) IN
                        sel' = IF last = Overflowed THEN [rest EXCEPT !.pc = "panicked"]
                               ELSE IF sel.selected_index < last
                               THEN [rest EXCEPT !.selected_index = @ + 1]
                               ELSE rest
             [] message.kind = "Decrement" ->
                  sel' = IF sel.selected_index > 0
                         THEN [rest EXCEPT !.selected_index = @ - 1]
                         ELSE rest
             [] message.kind = "Select" ->
                  IF sel.selected_index < Len(sel.files)
                  THEN LET selected_file == sel.files[sel.selected_index + 1] IN
                          IF selected_file.kind = "FlacFile"
                          THEN sel' = [rest EXCEPT !.select_q =
                                          Append(@, [player |-> message.player,
                                                     file_path |-> selected_file.path])]
                          ELSE \E files \in load_directory(selected_file.path) :
                                  sel' = [rest EXCEPT !.files = files,
                                                      !.current_dir = selected_file.path,
                                                      !.selected_index = 0]
                  ELSE sel' = rest
    /\ UNCHANGED <<not_deck, net>>

\* AKASHA's publisher thread: format!("anahata.{}.select", player) with the path.
AkashaPublish ==
    /\ sel.pc = "run"
    /\ sel.select_q # <<>>
    /\ LET select_message == Head(sel.select_q) IN
          net' = Publish(net, <<Message(<<"anahata", ToString(select_message.player),
                                          "select">>, select_message.file_path)>>)
    /\ sel' = [sel EXCEPT !.select_q = Tail(@)]
    /\ UNCHANGED not_deck

\* ANAHATA's control_thread takes one message off its subscription.
AnahataControl ==
    /\ net.anahata_sub # <<>>
    /\ LET arm == AnahataArm(Head(net.anahata_sub).subject) IN
          net' = [net EXCEPT !.anahata_sub = Tail(@),
                             !.arms = IF arm = "none" THEN @ ELSE Append(@, arm)]
    /\ UNCHANGED <<not_deck, sel>>

DeckNext == XoneEvent \/ AkashaNats \/ AkashaUpdate \/ AkashaPublish \/ AnahataControl

DeckSpec == DeckInit /\ [][DeckNext]_vars

\* ================================================================ claims
IsPrefix(s, t) == Len(s) <= Len(t) /\ \A k \in 1..Len(s) : s[k] = t[k]
IsSuffix(s, t) == Len(s) <= Len(t) /\ \A k \in 1..Len(s) : s[k] = t[Len(t) - Len(s) + k]
Last(s) == s[Len(s)]
\* The slots of the last block returned and of the block being written.
RecentSlots == out.slots \o blk
\* The frames those slots took from the ring buffer, in slot order.
RecentPops == [k \in 1..Len(SelectSeq(RecentSlots, LAMBDA e : e.src = "pop")) |->
                   SelectSeq(RecentSlots, LAMBDA e : e.src = "pop")[k].v]
\* The feeder is between two commands: no skip or track change is half-applied.
SkipSettled == fpc \in {"poll", "gate", "sf_load", "sb_load"}

\* C1: the frames the callback has popped are, in order, a prefix of the
\* frames the feeder has pushed; what was pushed and not yet popped is exactly
\* what the ring holds (nothing spurious, duplicated or lost).
C1_PoppedPrefixOfPushed ==
    /\ IsPrefix(popped, pushed)
    /\ popped \o ring = pushed

\* C1: two chunks have been fed and frames of both have come out.
C1_Witness == Len(popped) > FEED_CHUNK /\ Len(pushed) > Len(popped)

\* C2: on the bare ring buffer of capacity 2 x block the occupancy stays in
\* 0..capacity; a push succeeds exactly when the buffer is not full and a
\* failed push changes nothing; a pop succeeds exactly when the buffer is not
\* empty and takes the oldest frame; the push after a pop from a full buffer
\* succeeds.
C2_RingOccupancy ==
    LET cap == 2 * block
        After(k) == IF k < Len(rb_log) THEN rb_log[k + 1].before ELSE ring
    IN  /\ Len(ring) >= 0 /\ Len(ring) <= cap
        /\ \A k \in DOMAIN rb_log :
             /\ rb_log[k].op = "push" =>
                  /\ rb_log[k].ok <=> Len(rb_log[k].before) < cap
                  /\ rb_log[k].ok => After(k) = Append(rb_log[k].before, rb_log[k].val)
                  /\ ~rb_log[k].ok => After(k) = rb_log[k].before
             /\ rb_log[k].op = "pop" =>
                  /\ rb_log[k].ok <=> Len(rb_log[k].before) > 0
                  /\ rb_log[k].ok => /\ rb_log[k].val = Head(rb_log[k].before)
                                     /\ After(k) = Tail(rb_log[k].before)
                  /\ ~rb_log[k].ok => After(k) = rb_log[k].before
             /\ (k > 1 /\ rb_log[k].op = "push" /\ rb_log[k - 1].op = "pop"
                   /\ Len(rb_log[k - 1].before) = cap) => rb_log[k].ok

\* C2: capacity 4; pushes 1-4 succeed, the 5th fails, a pop, then a push succeeds.
C2_Witness ==
    /\ block = 2
    /\ [k \in DOMAIN rb_log |-> <<rb_log[k].op, rb_log[k].ok>>] =
          << <<"push", TRUE>>, <<"push", TRUE>>, <<"push", TRUE>>, <<"push", TRUE>>,
             <<"push", FALSE>>, <<"pop", TRUE>>, <<"push", TRUE>> >>

\* C3: in every reachable state 0 <= PLAYHEAD <= song.len().
C3_PlayheadWithinTrack == PLAYHEAD >= 0 /\ PLAYHEAD <= SongLen(song)

\* C4: every slot whose pop failed holds exactly (0.0, 0.0), so a block
\* written from an empty buffer is all zeros; the callback returns Continue;
\* the frames popped around an underrun are the latest pops, in push order.
C4_UnderrunIsSilence ==
    /\ \A k \in DOMAIN RecentSlots :
         RecentSlots[k].src = "underrun" => RecentSlots[k].v = <<0, 0>>
    /\ out.ret \in {"none", "Continue"}
    /\ IsSuffix(RecentPops, popped)
    /\ IsPrefix(popped, pushed)

\* C4: a whole block of underruns was returned, and the next block starts
\* with a frame pushed after it.
C4_Witness ==
    /\ block = 2
    /\ out.ret = "Continue"
    /\ \A k \in DOMAIN out.slots : out.slots[k].src = "underrun"
    /\ blk # <<>> /\ blk[1].src = "pop"

\* C5: a callback invocation that sees IS_PLAYING false returns a block of
\* zeros and leaves the ring buffer and the frames popped so far as they
\* were; the first frame popped after such a callback is the frame that was
\* oldest in the buffer when it ran.
C5_PausePreservesBuffer ==
    [][ /\ (n_callbacks' # n_callbacks /\ ~IS_PLAYING) =>
              /\ ring' = ring
              /\ popped' = popped
              /\ Len(out'.slots) = block
              /\ \A k \in DOMAIN out'.slots : out'.slots[k].v = <<0, 0>>
        /\ (popped' # popped /\ held # Silence) => Last(popped') = held
        /\ (held' # held /\ held' # Silence) => held' = Head(ring) ]_vars

\* C5: a frame has been popped after a paused callback that held frames.
C5_Witness == resumed.held # Silence /\ resumed.got = resumed.held

\* C6: every block returned has exactly block slots, each written once, and a
\* callback inside its loop can always take its next step, whatever the
\* feeder is doing and whatever the ring holds.
C6_CallbackCompletes ==
    /\ out.ret = "Continue" => Len(out.slots) = block
    /\ Len(blk) < block
    /\ cbpc = "slots" => ENABLED CallbackSlot
    /\ cbpc = "idle" => blk = <<>>

\* C6: a callback is inside its loop, on an empty buffer, after the feeder
\* thread has terminated.
C6_Witness == cbpc = "slots" /\ ring = <<>> /\ fpc = "dead"

\* C7: SkipForward stores min(p + 240000, L) and SkipBackward max(p - 240000, 0)
\* for the playhead p it read, and each then stores position
\* floor(new_playhead * 1000 / 48000).
C7_SkipClamps ==
    /\ \A k \in DOMAIN skip_log :
         /\ skip_log[k].cmd = "SkipForward" =>
              skip_log[k].stored = Min(skip_log[k].read + 240000, skip_log[k].len)
         /\ skip_log[k].cmd = "SkipBackward" =>
              skip_log[k].stored = Max(skip_log[k].read - 240000, 0)
    /\ (SkipSettled /\ skip_log # <<>>) =>
         /\ PLAYHEAD = Last(skip_log).stored
         /\ CURRENT_POSITION = (Last(skip_log).stored * 1000) \div 48000

\* C7: L = 480000, p = 0: SkipForward gives 240000 / 5000, a second one
\* 480000 / 10000.
C7_Witness ==
    /\ skip_log = << [cmd |-> "SkipForward", read |-> 0, stored |-> 240000, len |-> 480000],
                     [cmd |-> "SkipForward", read |-> 240000, stored |-> 480000,
                      len |-> 480000] >>
    /\ SkipSettled
    /\ PLAYHEAD = 480000 /\ CURRENT_POSITION = 10000

\* C8: SkipForward from p then SkipBackward from the playhead it stored gives
\* p again (and p's position) when p + 240000 < L; the result differs from p
\* only when SkipForward was clamped at L.
C8_SkipRoundTrip ==
    (/\ Len(skip_log) = 2
     /\ skip_log[1].cmd = "SkipForward" /\ skip_log[2].cmd = "SkipBackward"
     /\ skip_log[2].read = skip_log[1].stored) =>
        /\ skip_log[1].read + 240000 < skip_log[1].len =>
             /\ skip_log[2].stored = skip_log[1].read
             /\ SkipSettled =>
                  /\ PLAYHEAD = skip_log[1].read
                  /\ CURRENT_POSITION = (skip_log[1].read * 1000) \div 48000
        /\ skip_log[2].stored # skip_log[1].read =>
             \/ skip_log[1].stored = skip_log[1].len
             \/ skip_log[2].stored = 0

\* C8: a round trip from a playhead inside the track.
C8_Witness ==
    /\ Len(skip_log) = 2
    /\ skip_log[1].cmd = "SkipForward" /\ skip_log[2].cmd = "SkipBackward"
    /\ skip_log[1].read = 239999 /\ skip_log[1].len = 480000
    /\ SkipSettled
    /\ PLAYHEAD = 239999

\* The order of the feeder's shared writes in ChangeSong.
ChangeSongOrder ==
    <<"IS_PLAYING=false", "PLAYHEAD=0", "CURRENT_POSITION=0", "track", "waveform",
      "DURATION", "IS_PLAYING=true">>

\* C9: the feeder's writes of one ChangeSong happen in the order IS_PLAYING :=
\* false, PLAYHEAD := 0, CURRENT_POSITION := 0, track, waveform, DURATION,
\* IS_PLAYING := true; once it has stored IS_PLAYING = true the DURATION in
\* place is the new track's.
C9_ChangeSongWriteOrder ==
    /\ IsPrefix(cs_log, ChangeSongOrder)
    /\ (cs_log # <<>> /\ Last(cs_log) = "IS_PLAYING=true") =>
         DURATION = (SongLen(song) * 1000) \div 48000

\* C9: a ChangeSong to the 480000-frame file has run to its end.
C9_Witness == cs_log = ChangeSongOrder /\ SongLen(song) = 480000 /\ DURATION = 10000

\* C10: whenever IS_PLAYING is true after a ChangeSong has started, DURATION
\* is floor(L * 1000 / 48000) for the track of L frames the feeder holds.
C10_DurationFreshWhilePlaying ==
    (IS_PLAYING /\ cs_log # <<>>) => DURATION = (SongLen(song) * 1000) \div 48000

\* C11: a callback invocation that begins while the feeder is between the
\* IS_PLAYING.store(false) and the IS_PLAYING.store(true) of a ChangeSong pops
\* no frame (it writes only silence).
C11_SilentDuringChangeSong ==
    [][(cbpc = "slots" /\ cb_in_cs /\ InChangeSong) => popped' = popped]_vars

\* C12: a ChangeSong whose decode fails is not fatal: the feeder keeps running
\* and the control thread's sends do not fail.
C12_DecodeFailureNotFatal == fpc # "dead" /\ ctpc # "dead"

\* C13: with the command channel full the control thread is never left inside
\* send: the send has returned and the thread is free for the next message.
C13_SendFailsFast == Len(cmd_q) = CMD_CAPACITY => ctpc # "send"

\* The index in seq of its last ChangeSong, 0 when it has none.
LastChangeSong(seq) ==
    IF \E k \in DOMAIN seq : seq[k].cmd = "ChangeSong"
    THEN CHOOSE k \in DOMAIN seq :
           /\ seq[k].cmd = "ChangeSong"
           /\ \A j \in DOMAIN seq : seq[j].cmd = "ChangeSong" => j <= k
    ELSE 0
\* The feeder is inside the handler of a command.
InCommand ==
    fpc \in {"cs_stop", "cs_playhead", "cs_position", "cs_decode", "cs_waveform",
             "cs_duration", "cs_play", "sf_load", "sf_store", "sf_position",
             "sb_load", "sb_store", "sb_position"}
\* Commands accepted are received oldest first, none twice and none skipped;
\* once all have been applied the track is the last ChangeSong's and the
\* skips sent after it were applied, in order, to that track.
CommandsInOrder ==
    /\ recvd \o cmd_q = sent
    /\ (cmd_q = <<>> /\ ~InCommand /\ fpc # "dead") =>
         LET c == LastChangeSong(sent)
             after == Len(sent) - c
             kept == Min(after, Len(skip_log))
         IN  /\ song = (IF c = 0 THEN 0 ELSE sent[c].path)
             /\ after <= 2 => Len(skip_log) >= after
             /\ \A j \in 1..kept :
                  /\ skip_log[Len(skip_log) - kept + j].cmd = sent[Len(sent) - kept + j].cmd
                  /\ skip_log[Len(skip_log) - kept + j].len = SongLen(song)

\* C14: every command the channel accepted is received by the feeder once and
\* in the order sent, one per feeder iteration (the poll is reached again only
\* from the end of an iteration); after all sent commands have been applied
\* the track is the last ChangeSong's and the skips sent after it were
\* applied to it.
C14_CommandsOnceInOrder ==
    [][ /\ CommandsInOrder'
        /\ recvd' # recvd =>
             /\ fpc = "poll" /\ fpc' \in {"cs_stop", "sf_load", "sb_load"}
             /\ recvd' = Append(recvd, Head(cmd_q))
             /\ cmd_q' = Tail(cmd_q)
        /\ (fpc' = "poll" /\ fpc # "poll") =>
             fpc \in {"gate", "slots", "position", "wrap_position"} ]_vars

\* C14: two selects were sent and both applied: the second one's track is held.
C14_Witness ==
    /\ sent = <<ChangeSongCmd(1), ChangeSongCmd(2)>>
    /\ recvd = sent /\ cmd_q = <<>>
    /\ fpc = "poll"
    /\ song = 2

\* The frames the feed step in hand has pushed so far.
StepPushed == SubSeq(pushed, Len(pushed) - idx + 1, Len(pushed))

C16_FeedsIntoAnyFreeSlot ==
    [][(fpc = "slots" /\ fpc' # "slots" /\ current_pos < SongLen(song)
          /\ RbSlots(ring, 2 * block) >= 1) => fpc' = "push"]_vars

\* C17: a feeder iteration that finds IS_PLAYING true and the playhead at (or
\* past) the end of the track stores PLAYHEAD = 0, then CURRENT_POSITION = 0,
\* and goes back to its poll; neither step changes IS_PLAYING, so the next
\* feed step pushes from frame 0.
C17_WrapAtEndOfTrack ==
    [][ /\ (fpc = "load" /\ fpc' # "load" /\ PLAYHEAD >= SongLen(song)) =>
              fpc' = "wrap_playhead"
        /\ (fpc = "wrap_playhead" /\ fpc' # "wrap_playhead") =>
              /\ PLAYHEAD' = 0
              /\ IS_PLAYING' = IS_PLAYING
              /\ fpc' = "wrap_position"
        /\ (fpc = "wrap_position" /\ fpc' # "wrap_position") =>
              /\ CURRENT_POSITION' = 0
              /\ IS_PLAYING' = IS_PLAYING
              /\ fpc' = "poll" ]_vars

\* C17: the 5-frame track played 3 frames, a SkipForward took the playhead to
\* the end, and the feeder went on with frame 0.
C17_Witness ==
    /\ IS_PLAYING
    /\ skip_log = <<[cmd |-> "SkipForward", read |-> 3, stored |-> 5, len |-> 5]>>
    /\ Len(pushed) >= 4
    /\ pushed[3] = Frame(1, 2) /\ pushed[4] = Frame(1, 0)

\* C18: whenever the feeder is at its poll (its command and feed step are
\* done) and no GUI seek is between its two stores,
\* CURRENT_POSITION = floor(PLAYHEAD * 1000 / 48000).
C18_PositionMatchesPlayhead ==
    (fpc = "poll" /\ gpc = "idle") => CURRENT_POSITION = (PLAYHEAD * 1000) \div 48000

\* C19: every step of the GUI thread (a message taken from the side channel, a
\* seek chosen, a store of a seek) leaves PLAYHEAD, CURRENT_POSITION, DURATION
\* and IS_PLAYING unchanged.
C19_GuiReadOnly ==
    [][(gui' # gui \/ Len(meta_q') < Len(meta_q)) =>
          UNCHANGED <<PLAYHEAD, CURRENT_POSITION, DURATION, IS_PLAYING>>]_vars

RECURSIVE PacketsInOrder(_, _, _)
PacketsInOrder(lo, hi, n) ==
    IF lo > hi THEN <<>> ELSE PacketFrames(lo, n) \o PacketsInOrder(lo + 1, hi, n)

\* C21: whichever packets the workers decode first and whichever neighbouring
\* partial results the reduce combines first, every partial result holds the
\* frames of its packets in packet order, and the Vec decode_flac_to_vec
\* returns is the concatenation of all packets' frames in packet order.
C21_DecodeKeepsPacketOrder ==
    /\ \A k \in DOMAIN dec.parts :
         dec.parts[k].done =>
            dec.parts[k].frames = PacketsInOrder(dec.parts[k].lo, dec.parts[k].hi, dec.n)
    /\ DecodeDone => DecodedSamples = PacketsInOrder(1, dec.n, dec.n)

\* C21: a file of at least three packets has been decoded and reduced.
C21_Witness == dec.n >= 3 /\ DecodeDone /\ Len(DecodedSamples) = 2 * dec.n - 1


\* C22: for every integer format and every raw sample of it, the normalized
\* value decode_audio_buffer pushes lies in [-1.0, 1.0].
C22_NormalizedInUnitRange ==
    smp.pc = "done" => InUnitRange(smp.out.num, smp.out.den)


\* The frames bin b was computed from, and how many they are.
ChunkFrom(b) == wf.bins[b].chunk[1]
ChunkTo(b) == wf.bins[b].chunk[2]
ChunkSize(b) == IF ChunkTo(b) > ChunkFrom(b) THEN ChunkTo(b) - ChunkFrom(b) ELSE 0
\* Every RMS and peak of the bin is 0.
ZeroBin(bin) ==
    /\ bin.low = FrequencyBand(0, 0, 0, 0)
    /\ bin.mid = FrequencyBand(0, 0, 0, 0)
    /\ bin.high = FrequencyBand(0, 0, 0, 0)

\* C23 as stated: for a track of L >= 1 frames and N >= 1 bins there are
\* exactly N bins, computed from N chunks that follow one another from frame 0
\* to frame L - 1, all of the same size except that the last may be shorter.
C23_BinsPartitionTrack ==
    (wf.pc = "done" /\ wf.song # <<>>) =>
        /\ Len(wf.bins) = wf.num_bins
        /\ ChunkFrom(1) = 0
        /\ ChunkTo(wf.num_bins) = Len(wf.song)
        /\ \A b \in 1..(wf.num_bins - 1) :
             /\ ChunkFrom(b + 1) = ChunkTo(b)
             /\ ChunkSize(b) = ChunkSize(1)
        /\ ChunkSize(wf.num_bins) <= ChunkSize(1)

\* C23 as amended: there are exactly N bins; the first K of them, for some K
\* in 1..N, are computed from K non-empty chunks that follow one another from
\* frame 0 to frame L - 1 (each frame in exactly one chunk, in track order),
\* all of the same size except that the K-th may be shorter; the other N - K
\* bins are computed from no frame and are all zeros.
C23_BinsCoverTrack ==
    (wf.pc = "done" /\ wf.song # <<>>) =>
        /\ Len(wf.bins) = wf.num_bins
        /\ \E K \in 1..wf.num_bins :
             /\ ChunkFrom(1) = 0
             /\ ChunkTo(K) = Len(wf.song)
             /\ \A b \in 1..(K - 1) :
                  /\ ChunkFrom(b + 1) = ChunkTo(b)
                  /\ ChunkSize(b) = ChunkSize(1)
             /\ \A b \in 1..K : ChunkSize(b) >= 1
             /\ ChunkSize(K) <= ChunkSize(1)
             /\ \A b \in (K + 1)..wf.num_bins :
                  /\ ChunkFrom(b) >= Len(wf.song)
                  /\ ZeroBin(wf.bins[b])
        /\ \A i \in 0..(Len(wf.song) - 1) :
             Cardinality({b \in DOMAIN wf.bins : ChunkFrom(b) <= i /\ i < ChunkTo(b)}) = 1

\* C23: a track of 3 frames analysed into 4 bins: three chunks of one frame
\* and a bin of zeros, although the track is not silent.
C23_Witness ==
    /\ wf.pc = "done"
    /\ Len(wf.song) = 3 /\ wf.num_bins = 4 /\ Len(wf.bins) = 4
    /\ \A i \in 1..3 : wf.song[i] # <<0, 0>> /\ ~ZeroBin(wf.bins[i])
    /\ ZeroBin(wf.bins[4])

\* C24: for a track of L >= 1 frames that are all (0, 0) and any N >= 1, every
\* bin generate_waveform pushes has RMS 0 and peak 0 in the low, mid and high
\* band, for both channels.
C24_SilentTrackZeroBins ==
    (wf.song # <<>> /\ \A i \in DOMAIN wf.song : wf.song[i] = <<0, 0>>) =>
        /\ \A b \in DOMAIN wf.bins : ZeroBin(wf.bins[b])
        /\ wf.pc = "done" => Len(wf.bins) = wf.num_bins

\* C24: a silent track of 3 frames analysed into 2 bins, chunks of 2 and 1.
C24_Witness ==
    /\ wf.pc = "done"
    /\ wf.song = <<<<0, 0>>, <<0, 0>>, <<0, 0>>>>
    /\ wf.num_bins = 2 /\ Len(wf.bins) = 2
    /\ ChunkSize(1) = 2 /\ ChunkSize(2) = 1


\* The feed step is at the point where a run's bound on the frames fed stops it.
FeedCapped ==
    /\ fpc = "slots"
    /\ RbSlots(ring, RingCapacity(block)) >= FEED_CHUNK
    /\ Len(pushed) + FEED_CHUNK > MaxPushed

\* C25: once the control thread has ended and the channel is drained, the
\* feeder neither ends nor panics: its poll finds nothing and goes on to the
\* play gate exactly as for an empty channel, changing neither the track nor
\* the transport state, it never enters a command again, and it always has a
\* next step (gate, feed step or end-of-track wrap) to take.
C25_FeederOutlivesSender ==
    [][(ctpc = "gone" /\ cmd_q = <<>> /\ ~InCommand /\ fpc # "dead") =>
         /\ fpc' # "dead" /\ ~InCommand' /\ cmd_q' = <<>>
         /\ (fpc = "poll" /\ fpc' # fpc) =>
               /\ fpc' = "gate"
               /\ UNCHANGED <<shared, song, ring, pushed>>
         /\ ~FeedCapped => ENABLED Feeder ]_vars

\* C25: the control thread ended after one select; the feeder has since fed
\* the whole 5-frame track and is wrapping at its end.
C25_Witness ==
    /\ ctpc = "gone"
    /\ sent = <<ChangeSongCmd(1)>> /\ cmd_q = <<>>
    /\ fpc = "wrap_position"
    /\ Len(pushed) = 5


\* Every select queued names a file that decodes.
DecodableQueued == \A k \in DOMAIN cmd_q : cmd_q[k].path # BadPath
\* Every command sent has been received and its handler has finished, and the
\* callback has popped nothing.
AllApplied ==
    /\ cmd_q = <<>> /\ recvd = sent
    /\ ~InCommand /\ fpc # "dead"
    /\ popped = <<>>

\* C26: with the feeder running alone (the callback pops nothing), paused or
\* not, the ring buffer without room for a chunk or not, the feeder comes back
\* to its poll again and again, and the skips and selects queued are all
\* received and applied.
C26_PollsWhilePausedOrFull ==
    /\ []<>(fpc \in {"poll", "dead"})
    /\ DecodableQueued => <>AllApplied

\* C26: paused, with a chunk buffered that nothing pops, two skips were applied.
C26_Witness ==
    /\ ~IS_PLAYING /\ ring # <<>> /\ popped = <<>>
    /\ Len(sent) = 3 /\ recvd = sent
    /\ Len(skip_log) = 2
    /\ fpc = "poll"


\* C27: the play gate applies to each output slot: every step the callback
\* takes inside a block while IS_PLAYING is false writes silence to the slot
\* and pops no frame from the ring buffer.
C27_GatePerSlot ==
    [][(cbpc = "slots" /\ ~IS_PLAYING /\ callback' # callback) =>
         /\ popped' = popped
         /\ ring' = ring
         /\ Last(out.slots \o blk)' .v = Silence ]_vars


\* The step is the PLAYHEAD store of a skip or of a GUI seek.
SkipOrSeekStore ==
    \/ fpc \in {"sf_store", "sb_store"} /\ fpc' # fpc
    \/ gpc = "seek_playhead" /\ gpc' # gpc

\* C28: the feed step never lowers PLAYHEAD, and apart from the stores of
\* skips and seeks the only steps that lower it are the store of 0 by
\* ChangeSong and the store of 0 at the end of the track.
C28_PlayheadMonotone ==
    [][ /\ (fpc = "fetch_add" /\ fpc' # fpc) => PLAYHEAD' >= PLAYHEAD
        /\ (PLAYHEAD' < PLAYHEAD /\ ~SkipOrSeekStore) =>
              /\ PLAYHEAD' = 0
              /\ fpc \in {"cs_playhead", "wrap_playhead"} /\ fpc' # fpc
              /\ fpc = "wrap_playhead" => current_pos >= SongLen(song) ]_vars

\* C28: playing with no skip applied, the playhead has gone 0, 3, 5 over two
\* feed steps and the position is about to be published.
C28_Witness ==
    /\ IS_PLAYING /\ skip_log = <<>>
    /\ fpc = "position" /\ new_pos = 5 /\ PLAYHEAD = 5
    /\ Len(pushed) = 5


\* The feeder is in a skip, in its play gate, in a feed step or in a wrap.
InSkipFeedOrWrap ==
    fpc \in {"sf_load", "sf_store", "sf_position", "sb_load", "sb_store", "sb_position",
             "gate", "load", "wrap_playhead", "wrap_position",
             "slots", "push", "fetch_add", "reload", "position"}

\* C29: DURATION changes only in ChangeSong's DURATION store, which stores
\* floor(frame_count * 1000 / 48000) of the track just decoded, once per
\* ChangeSong; outside the stretch from the decode to that store DURATION is
\* that value for the track held; the track changes only in ChangeSong's
\* decode, as a whole; the steps of a skip, of the feed step and of the wrap
\* leave DURATION, IS_PLAYING and the track as they are.
C29_DurationAndTrackOnlyByChangeSong ==
    [][ /\ DURATION' # DURATION =>
              /\ fpc = "cs_duration" /\ fpc' = "cs_play"
              /\ DURATION' = (SongLen(song) * 1000) \div 48000
        /\ (fpc = "cs_play" /\ fpc' # fpc) =>
              /\ Cardinality({k \in DOMAIN cs_log : cs_log[k] = "DURATION"}) = 1
              /\ Cardinality({k \in DOMAIN cs_log : cs_log[k] = "track"}) = 1
        /\ fpc \notin {"cs_waveform", "cs_duration"} =>
              DURATION = (SongLen(song) * 1000) \div 48000
        /\ song' # song => fpc = "cs_decode" /\ song' = path /\ song' \in Tracks
        /\ (InSkipFeedOrWrap /\ feeder' # feeder) =>
              UNCHANGED <<DURATION, IS_PLAYING, song>> ]_vars

\* C29: the 10-second track is playing and a skip has been applied to it; its
\* duration stands as ChangeSong stored it.
C29_Witness ==
    /\ song = 2 /\ DURATION = 10000 /\ IS_PLAYING
    /\ Len(skip_log) = 1 /\ skip_log[1].len = SongLen(2)
    /\ fpc = "poll"


\* The tracks of the frames of seq, one entry per run of frames of one track.
RECURSIVE TrackRuns(_)
TrackRuns(seq) ==
    IF seq = <<>> THEN <<>>
    ELSE IF Len(seq) > 1 /\ seq[1][1] = seq[2][1] THEN TrackRuns(Tail(seq))
    ELSE <<seq[1][1]>> \o TrackRuns(Tail(seq))
\* s can be had from t by leaving entries out.
RECURSIVE IsSubseq(_, _)
IsSubseq(s, t) ==
    IF s = <<>> THEN TRUE
    ELSE IF t = <<>> THEN FALSE
    ELSE IF s[1] = t[1] THEN IsSubseq(Tail(s), Tail(t))
    ELSE IsSubseq(s, Tail(t))
\* The paths of the selects received, oldest first.
SelectedPaths ==
    [k \in 1..Len(SelectSeq(recvd, LAMBDA c : c.cmd = "ChangeSong")) |->
        SelectSeq(recvd, LAMBDA c : c.cmd = "ChangeSong")[k].path]

\* C30: as long as no skip has been received and no seek made, the frames
\* pushed are runs of frames of one track each, the tracks in the order they
\* were selected (no frame of an earlier track after a later one's), every run
\* starting at its track's frame 0 and going on in frame order; the callback
\* pops them in that order, and what is left of earlier tracks is in the ring
\* buffer, so at most its capacity.
C30_NewTrackFromFrameZero ==
    (\A k \in DOMAIN recvd : recvd[k].cmd = "ChangeSong") =>
        /\ IsSubseq(TrackRuns(pushed), SelectedPaths)
        /\ pushed # <<>> => pushed[1][2] = 0
        /\ \A k \in 1..(Len(pushed) - 1) :
             IF pushed[k + 1][1] # pushed[k][1]
             THEN pushed[k + 1][2] = 0
             ELSE pushed[k + 1][2] \in {pushed[k][2] + 1, 0}
        /\ popped \o ring = pushed
        /\ Cardinality({k \in DOMAIN ring : ring[k][1] # song}) <= RingCapacity(block)

\* C30: three frames of the 5-frame track were buffered when the 10-second
\* track was selected; they came out first, then that track's frame 0.
C30_Witness ==
    /\ song = 2
    /\ popped = <<Frame(1, 0), Frame(1, 1), Frame(1, 2), Frame(2, 0)>>
    /\ \A k \in DOMAIN recvd : recvd[k].cmd = "ChangeSong"


\* C31: when a skip or a seek has stored a frame s inside the track in PLAYHEAD,
\* the next frame the feeder pushes is track[s].
C31_SeekThenPushFromThere ==
    [][(/\ sought # NoSeek
        /\ sought.frame < SongLen(song)
        /\ pushed' # pushed) => Last(pushed') = Frame(song, sought.frame)]_vars


\* The last command applied was a SkipForward that clamped to the end of the
\* track, and the feeder has pushed nothing since.
ClampedSkip ==
    /\ song # 0
    /\ skip_log # <<>>
    /\ Last(skip_log).cmd = "SkipForward"
    /\ sought = [by |-> "skip", frame |-> SongLen(song)]

\* C32: a SkipForward with less than the skip amount left stores the frame
\* count in PLAYHEAD; if the same iteration finds IS_PLAYING true it goes on to
\* the end-of-track check, which stores 0, and the next frame pushed is frame
\* 0 of the track; if it finds IS_PLAYING false the playhead stays at the frame
\* count and the iteration ends. Until that push only the end-of-track check and
\* another clamped SkipForward store PLAYHEAD.
C32_ClampedSkipWraps ==
    [][ClampedSkip =>
         /\ PLAYHEAD \in {0, SongLen(song)}
         /\ (PLAYHEAD = SongLen(song) /\ fpc = "gate" /\ fpc' # "gate")
              => /\ fpc' = IF IS_PLAYING THEN "load" ELSE "poll"
                 /\ PLAYHEAD' = PLAYHEAD
         /\ (PLAYHEAD = SongLen(song) /\ fpc = "load" /\ fpc' # "load")
              => fpc' = "wrap_playhead"
         /\ (fpc = "wrap_playhead" /\ fpc' # "wrap_playhead")
              => PLAYHEAD' = 0 /\ IS_PLAYING' = IS_PLAYING
         /\ (ClampedSkip' /\ PLAYHEAD' # PLAYHEAD)
              => fpc \in {"wrap_playhead", "sf_store"}
         /\ pushed' # pushed => Last(pushed') = Frame(song, 0)]_vars

\* The 5-frame track was fed, skipped forward to its end, wrapped, and frame 0
\* has been pushed again.
C32_Witness ==
    /\ skip_log = <<[cmd |-> "SkipForward", read |-> 3, stored |-> 5, len |-> 5]>>
    /\ pushed = <<Frame(1, 0), Frame(1, 1), Frame(1, 2), Frame(1, 0)>>
    /\ PLAYHEAD = 0
    /\ IS_PLAYING


\* The feeder has received no ChangeSong: it holds the empty Vec of main().
Idle == \A k \in DOMAIN recvd : recvd[k].cmd # "ChangeSong"

\* C33: while no ChangeSong was received, whatever stop toggles and skips were
\* handled, the track and the ring buffer are empty, PLAYHEAD and
\* CURRENT_POSITION are 0, every output slot written is silence, nothing was
\* pushed, and the feeder neither died nor reached the code that indexes song.
C33_IdleIsSilentAndSafe ==
    Idle =>
      /\ song = 0 /\ ring = <<>> /\ pushed = <<>>
      /\ PLAYHEAD = 0 /\ CURRENT_POSITION = 0
      /\ \A k \in DOMAIN out.slots : out.slots[k].v = Silence
      /\ \A k \in DOMAIN blk : blk[k].v = Silence
      /\ fpc \in {"poll", "gate", "load", "wrap_playhead", "wrap_position",
                  "sf_load", "sf_store", "sf_position",
                  "sb_load", "sb_store", "sb_position"}

\* With no track, playback was switched on, a SkipForward was applied and the
\* callback returned a block of underruns.
C33_Witness ==
    /\ Idle
    /\ IS_PLAYING
    /\ skip_log = <<[cmd |-> "SkipForward", read |-> 0, stored |-> 0, len |-> 0]>>
    /\ out.ret = "Continue"
    /\ \A k \in DOMAIN out.slots : out.slots[k].src = "underrun"
    /\ fpc = "wrap_position"


\* The last frame of the track in hand was pushed, decode_flac is back at its
\* poll and no ChangeSong is pending.
PlayerAtEnd(p) ==
    /\ sp.pc = "poll"
    /\ sp.path = p
    /\ sp.sample_index = PlayerSamples(p)
    /\ sp.cmd_q = <<>>

\* C34: in the streaming player, once the last frame of the track was pushed
\* with no ChangeSong pending, frame 0 of the same track is pushed again,
\* unless a ChangeSong arrives or playback is paused first.
C34_PlayerLoopsAtEnd ==
    \A p \in PlayerTracks :
      PlayerAtEnd(p) ~> \/ sp.pushed # <<>> /\ Last(sp.pushed) = TrackFrame(p, 0)
                        \/ sp.cmd_q # <<>>
                        \/ ~sp.IS_PLAYING


\* C35: in the streaming player a ChangeSong that is queued is received
\* (path replaced, sample_index reset), whether or not playback is paused or
\* the ring buffer is full, unless decode_flac has died.
C35_PlayerAppliesChangeSong ==
    (sp.cmd_q # <<>>) ~> (sp.cmd_q = <<>> \/ sp.pc = "dead")

\* C36: in the streaming player, until a ChangeSong is received, the frames
\* pushed by prefill_buffer and then decode_flac are the frames of the initial
\* file in order, and decode_flac has pushed every frame it has read.
C36_PrefillThenDecodeInOrder ==
    sp.changes = 0 =>
      /\ \A k \in DOMAIN sp.pushed : sp.pushed[k] = TrackFrame(1, k - 1)
      /\ sp.pc \notin {"off", "prefill"} => Len(sp.pushed) = sp.sample_index \div 2

\* The whole initial file was pushed, decode_flac having found the ring
\* buffer full on the way.
C36_Witness ==
    /\ sp.changes = 0
    /\ sp.retried
    /\ sp.pushed = [k \in 1..PlayerTrackLens[1] |-> TrackFrame(1, k - 1)]


\* C37: every control message SARASVATI and AKASHA publish (anahata.N.skipforward,
\* anahata.N.skipbackward, anahata.N.stop, anahata.N.select) is on a subject that
\* ANAHATA's subscription receives and that its control thread matches with the
\* arm of that command.
C37_ControlSubjectsMatched ==
    \A k \in DOMAIN net.published :
        LET subject == net.published[k].subject IN
           subject[1] = "anahata" =>
              /\ NatsMatches(AnahataSubscription, subject)
              /\ AnahataArm(subject) = Last(subject)

\* C38: AKASHA's selected_index stays inside the list (0 when the list is empty) and
\* no UiMessage makes update panic.
C38_SelectedIndexInBounds ==
    /\ sel.pc # "panicked"
    /\ IF sel.files = <<>> THEN sel.selected_index = 0
       ELSE sel.selected_index < Len(sel.files)

====
